---- MODULE Spec2Model ----
(***************************************************************************)
(* Data-room backend: the authentication pipeline (authenticate_token,     *)
(* verify_supabase_jwt, the identity cache, the rate limiter) and the      *)
(* folder tree operations (create / rename / move / delete) over the       *)
(* relational store with its uniqueness indexes.                           *)
(***************************************************************************)
EXTENDS Integers, Sequences, FiniteSets, TLC

\* ------------------------------------------------------------------ bounds
MaxTicks == 1          \* how often the clock advances in one behaviour
MaxAuthRequests == 2   \* requests served one after another by Spec
NRace == 2             \* concurrent first-time requests in SpecRace
MaxFolders == 3        \* folder rows ever created in SpecFolders
MaxFiles == 2          \* file rows ever created in SpecFolders
NFolderReqs == 2       \* concurrent folder requests in SpecFolders
MaxBlobCalls == 3      \* blob-store calls recorded in SpecFolders
MaxFolderRequests == 3 \* folder requests served in SpecFolders
MaxBreadcrumb == 4     \* breadcrumb entries kept (the newest ones) in SpecWalk
NThreads == 2          \* threads calling the cache and the limiter in SpecLocks
MaxLockOps == 4        \* cache/limiter/store calls started in SpecLocks
MaxCacheSets == 3      \* cache_set calls in SpecCache
MaxRecords == 2        \* attempts recorded in SpecLimiter after its first state

\* ------------------------------------------------------- program constants
MAX_TOKEN_AGE == 86400
LEEWAY == 60
MAX_FAILED_ATTEMPTS == 10
RATE_LIMIT_WINDOW == 300
MAX_FALLBACK_ATTEMPTS == 5
FALLBACK_WINDOW == 60
_cache_ttl == 300
max_retries == 3

None == "None"

VARIABLES
    now,              \* time.time(), in seconds
    NODE_ENV,         \* Config.NODE_ENV
    jwt_leeway,       \* the leeway jwt.decode really applies
    users,            \* committed rows of table users
    data_rooms,       \* committed rows of table data_rooms
    folders,          \* committed rows of table folders
    files,            \* committed rows of table files
    next_id,          \* source of fresh primary keys (generate_uuid)
    _cache,           \* user_cache._cache: supabase_uid -> (user_id, expiry);
                      \* in SpecCache: cache._cache, the CacheManager
    _failed_attempts, \* rate_limiter._failed_attempts: key -> list of times
    reqs,             \* authenticate_token invocations in flight
    remote_calls,     \* per client, the times of supabase.auth.get_user calls
    served,           \* number of requests Spec has accepted so far
    ticks,            \* number of clock advances so far
    freqs,            \* folder/file requests in flight (SpecFolders)
    blob_calls,       \* delete_supabase_file calls issued, in order
    threads,          \* threads inside user_cache / rate_limiter functions
    _cache_lock,      \* user_cache._cache_lock: the thread holding it (0 = free)
    _lock,            \* rate_limiter._lock: the thread holding it (0 = free)
    history           \* the calls that have returned: last put per subject,
                      \* recorded attempts per key

vars == <<now, NODE_ENV, jwt_leeway, users, data_rooms, folders, files, next_id,
          _cache, _failed_attempts, reqs, remote_calls, served, ticks,
          freqs, blob_calls, threads, _cache_lock, _lock, history>>

lockVars == <<threads, _cache_lock, _lock, history>>

storeVars == <<users, data_rooms, folders, files, next_id>>

\* ------------------------------------------------------------------ tokens
Subjects == {"sub-123", "sub-456"}
Emails == {"user@x.com", "timeout@x.com"}
Clients == {"10.0.0.1"}
EXPECTED_ISSUER == "https://proj.supabase.co"
Issuers == {EXPECTED_ISSUER, "https://proj.supabase.co/auth/v1", "https://evil.example", ""}
Signatures == {"service", "anon", "other"}
FullNames == {None, "Ann Lee", "Ann Lee (al)"}

\* A bearer token as the verifier sees it: wf = three well-formed segments,
\* sig = the secret its signature validates under, then the payload claims
\* (None = claim absent; has_iat = the payload carries iat; iat_text = the
\* iat claim is a JSON string of digits, "1700000000", instead of a number).
GoodToken(t) ==
    [wf |-> TRUE, sig |-> "service", exp |-> t + 3600, has_iat |-> TRUE, iat |-> t - 10,
     iat_text |-> FALSE,
     iss |-> EXPECTED_ISSUER, sub |-> "sub-123", email |-> "user@x.com",
     full_name |-> None]

\* the tokens that differ from g in one claim (and g itself)
Defects(g, t) ==
    {g, [g EXCEPT !.wf = FALSE], [g EXCEPT !.has_iat = FALSE],
     [g EXCEPT !.iat_text = TRUE]}
    \cup {[g EXCEPT !.exp = x] : x \in {t - 61, t - 60, t - 1}}
    \cup {[g EXCEPT !.iat = x] : x \in {t - 86401, t - 86400, t + 1, t + 60, t + 61}}
    \cup {[g EXCEPT !.iss = x] : x \in Issuers}
    \cup {[g EXCEPT !.sub = x] : x \in Subjects \cup {None}}
    \cup {[g EXCEPT !.email = x] : x \in Emails \cup {None}}

\* Tokens presented at time t: every single defect of the good token, each
\* under every signature class (primary secret, secondary secret, neither).
Tokens(t) ==
    {[g EXCEPT !.sig = x] : g \in Defects(GoodToken(t), t), x \in Signatures}

\* jwt.decode(token, secret, algorithms=['HS256'], options=...) of PyJWT:
\* segments, then signature, then the registered claims iat and exp (PyJWT
\* reads them with int(), which accepts a string of digits).
jwt_decode(tok, secret, t, lw) ==
    IF ~tok.wf THEN "DecodeError"
    ELSE IF tok.sig # secret THEN "InvalidSignatureError"
    ELSE IF tok.has_iat /\ tok.iat > t + lw THEN "InvalidIssuedAtError"
    ELSE IF tok.exp <= t - lw THEN "ExpiredSignatureError"
    ELSE "decoded"

\* An exception: its class, message, status_code attribute (0 = none), and
\* the words its str() contains (what the handlers search it for).
Exc(kind, msg, code, text) ==
    [kind |-> kind, message |-> msg, status_code |-> code, text |-> text]
AppError(msg, code) == Exc("AppError", msg, code, {})
create_error(msg, code) == AppError(msg, code)
ValueError == Exc("ValueError", "Signature verification failed", 0, {})
Decoded == Exc("decoded", "", 0, {})
NoError == Exc("none", "", 0, {})
TypeError ==
    Exc("TypeError", "unsupported operand type(s) for -: 'float' and 'str'", 0, {})

\* the issuer and token-age checks that follow a successful decode
claim_checks(tok, t) ==
    IF tok.iss # "" /\ tok.iss \notin {EXPECTED_ISSUER, "https://proj.supabase.co/auth/v1"}
    THEN create_error("Invalid token issuer", 401)
    ELSE IF tok.has_iat /\ tok.iat_text THEN TypeError
    ELSE IF tok.has_iat /\ t - tok.iat > MAX_TOKEN_AGE
    THEN create_error("Token too old", 401)
    ELSE IF tok.has_iat /\ t - tok.iat < 0
    THEN create_error("Invalid token issue time", 401)
    ELSE Decoded

invalid_token_error(env) ==
    IF env = "development" THEN create_error("Invalid token: <detail>", 401)
    ELSE create_error("Invalid token", 401)

\* lines 94-116: what leaves verify_supabase_jwt.  ValueError and AppError
\* pass through; every other exception becomes a 401 AppError.
verification_failed(env) ==
    IF env = "development" THEN create_error("Token verification failed: <detail>", 401)
    ELSE create_error("Token verification failed", 401)

outer_handlers(v, env) ==
    IF v.kind \in {"decoded", "ValueError", "AppError"} THEN v
    ELSE verification_failed(env)

\* mutant: an expired token under the secondary secret is reported as a
\* signature mismatch
verify_expired_as_mismatch(tok, t, lw, env) ==
    outer_handlers(
        LET d1 == jwt_decode(tok, "service", t, lw) IN
        IF d1 = "InvalidSignatureError"
        THEN LET d2 == jwt_decode(tok, "anon", t, lw) IN
             IF d2 \in {"InvalidSignatureError", "ExpiredSignatureError"} THEN ValueError
             ELSE IF d2 = "decoded" THEN claim_checks(tok, t)
             ELSE invalid_token_error(env)
        ELSE IF d1 = "ExpiredSignatureError" THEN create_error("Token expired", 401)
        ELSE IF d1 = "InvalidIssuedAtError" THEN create_error("Invalid token issue time", 401)
        ELSE IF d1 = "DecodeError" THEN invalid_token_error(env)
        ELSE claim_checks(tok, t),
        env)

\* lines 24-93: the two decodes and the claim checks, before the outer
\* exception handlers
decode_and_check(tok, t, lw, env) ==
    LET d1 == jwt_decode(tok, "service", t, lw) IN
    IF d1 = "InvalidSignatureError"
    THEN LET d2 == jwt_decode(tok, "anon", t, lw) IN
         IF d2 = "InvalidSignatureError" THEN ValueError
         ELSE IF d2 = "ExpiredSignatureError" THEN create_error("Token expired", 401)
         ELSE IF d2 = "decoded" THEN claim_checks(tok, t)
         ELSE invalid_token_error(env)
    ELSE IF d1 = "ExpiredSignatureError" THEN create_error("Token expired", 401)
    ELSE IF d1 = "InvalidIssuedAtError" THEN create_error("Invalid token issue time", 401)
    ELSE IF d1 = "DecodeError" THEN invalid_token_error(env)
    ELSE claim_checks(tok, t)

verify_supabase_jwt(tok, t, lw, env) ==
    outer_handlers(decode_and_check(tok, t, lw, env), env)

\* ------------------------------------------------------------ error_handler
DbErrorKinds == {"OperationalError", "DatabaseError", "IntegrityError"}

integrity_response(text) ==
    IF "foreign key" \in text
    THEN [status |-> 400,
          message |-> IF "parent_folder_id" \in text
                      THEN "Parent folder not found or does not belong to this data room."
                      ELSE IF "data_room_id" \in text THEN "Data room not found."
                      ELSE IF "folder_id" \in text
                      THEN "Folder not found or does not belong to this data room."
                      ELSE "Invalid reference. Please check your input and try again."]
    ELSE IF "unique" \in text \/ "duplicate" \in text
    THEN [status |-> 409,
          message |-> IF "uq_data_room_user_name" \in text
                      THEN "A data room with this name already exists. Please choose a different name."
                      ELSE IF "idx_folder_unique" \in text
                      THEN "A folder with this name already exists in this location. Please choose a different name."
                      ELSE IF "idx_file_unique" \in text
                      THEN "A file with this name already exists in this location. Please choose a different name."
                      ELSE IF "users_email_key" \in text \/ "email" \in text
                      THEN "An account with this email already exists."
                      ELSE "A record with this name already exists. Please choose a different name."]
    ELSE [status |-> 400,
          message |-> "Invalid data provided. Please check your input and try again."]

\* the (status, message) of the JSON response for an exception leaving a view
error_handler(error, env) ==
    LET base == IF error.kind = "AppError"
                THEN [status |-> error.status_code, message |-> error.message]
                ELSE IF error.kind = "IntegrityError" THEN integrity_response(error.text)
                ELSE IF error.kind \in DbErrorKinds
                THEN [status |-> 503,
                      message |-> "Database connection error. Please try again later."]
                ELSE [status |-> 500, message |-> error.message]
        st == IF error.kind = "ValueError" THEN 400 ELSE base.status
    IN  [status |-> st,
         message |-> IF env = "production" /\ st = 500
                     THEN "Internal Server Error" ELSE base.message]

\* ------------------------------------------------------------- user_cache
CacheEntry(uid) == {e \in _cache : e.uid = uid}

\* mutant: an entry is still returned at the instant it expires
cache_get_value_at_expiry(cache, uid, t) ==
    IF \E e \in cache : e.uid = uid /\ t <= e.expiry
    THEN (CHOOSE e \in cache : e.uid = uid).user_id
    ELSE None

\* get_user_id_from_cache: the id returned (None on a miss) ...
cache_get_value(cache, uid, t) ==
    IF \E e \in cache : e.uid = uid /\ t < e.expiry
    THEN (CHOOSE e \in cache : e.uid = uid).user_id
    ELSE None

\* ... and the cache it leaves: an expired entry is removed by the read
cache_after_get(cache, uid, t) ==
    {e \in cache : ~(e.uid = uid /\ ~(t < e.expiry))}

set_user_id_in_cache(cache, uid, user_id, t) ==
    {e \in cache : e.uid # uid}
        \cup {[uid |-> uid, user_id |-> user_id, expiry |-> t + _cache_ttl]}

\* ------------------------------------------------------------ entity store
UserId(n) == "u" \o ToString(n)

UserRow(id, email, uid, name) ==
    [id |-> id, email |-> email, supabase_uid |-> uid, name |-> name]
DataRoomRow(id, name, user_id) == [id |-> id, name |-> name, user_id |-> user_id]

\* email.split('@')[0]
LocalPart(email) == IF email = "timeout@x.com" THEN "timeout" ELSE "user"

\* re.sub(r'\s*\([^)]*\)\s*$', '', name).strip()
StripNickname(name) == IF name = "Ann Lee (al)" THEN "Ann Lee" ELSE name

\* mutant: the nickname in parentheses is kept
DisplayNameUnstripped(full_name, email) ==
    IF full_name # None THEN full_name ELSE LocalPart(email)

DisplayName(full_name, email) ==
    StripNickname(IF full_name # None THEN full_name ELSE LocalPart(email))

DefaultDataRoomName(name) == "Data Room (" \o name \o ")"

\* The words of 'timeout', 'connection', 'maxclients', 'server closed' that the
\* text of a statement's bound parameters contains (str(e) of a DBAPIError
\* quotes the statement and its parameters).
RetryKeywords == {"timeout", "connection", "maxclients", "server closed"}
KeywordsIn(value) ==
    IF value \in {"timeout@x.com", "timeout", "Data Room (timeout)"} THEN {"timeout"}
    ELSE {}

\* mutant: the users table without its unique constraints
UserNoUniqueConstraint(rows, row) == {}

\* users.email and users.supabase_uid are unique=True: the violation an INSERT
\* or UPDATE of `row` raises against the rows `rows` ({} = none)
UserUniqueViolation(rows, row) ==
    IF \E u \in rows : u.id # row.id /\ u.email = row.email
    THEN {"duplicate", "unique", "users_email_key", "email"}
    ELSE IF \E u \in rows : u.id # row.id /\ row.supabase_uid # None
                             /\ u.supabase_uid = row.supabase_uid
    THEN {"duplicate", "unique", "users_supabase_uid_key"}
    ELSE {}

UserIntegrityError(rows, row) ==
    Exc("IntegrityError", "duplicate key value violates unique constraint", 0,
        UserUniqueViolation(rows, row) \cup KeywordsIn(row.email) \cup KeywordsIn(row.name))

\* the database connection is lost while a statement or the COMMIT runs
OperationalError ==
    Exc("OperationalError", "server closed the connection unexpectedly", 0,
        {"server closed", "connection"})

\* ------------------------------------------------------- authenticate_token
ReqIds == 1 .. NRace
HeaderKinds == {"absent", "no_token", "bearer", "basic"}

IdleReq ==
    [pc |-> "idle", client |-> "", header |-> "absent", tok |-> GoodToken(0),
     verify |-> NoError, at |-> 0, remote |-> 0, local |-> FALSE,
     uid |-> None, email |-> None, full_name |-> None,
     attempt |-> 0, caught |-> "", pending |-> {}, user |-> None, via |-> "",
     status |-> 0, message |-> "", handler_runs |-> 0]

\* the request ends with the response the global error handler builds
Failed(q, err) ==
    LET resp == error_handler(err, NODE_ENV) IN
    [q EXCEPT !.pc = "done", !.pending = {},
              !.status = resp.status, !.message = resp.message]

is_retryable(err) == err.text \cap RetryKeywords # {}

\* lines 188-217: what the retry loop does with an exception raised inside
\* it, by the user lookup or by the wrapped view (lines 123 and 186 call the
\* view inside the try): another attempt, or the error that ends the request
Retry == Exc("retry", "", 0, {})
LoopVerdict(err, attempt) ==
    IF err.kind \in DbErrorKinds
    THEN IF is_retryable(err) /\ attempt < max_retries - 1
         THEN Retry
         ELSE create_error("Database connection error. Please try again later.", 503)
    ELSE create_error("Authentication error", 500)

OnLoopException(q, err) ==
    LET verdict == LoopVerdict(err, q.attempt) IN
    IF verdict = Retry
    THEN [q EXCEPT !.pc = "resolve", !.pending = {}, !.attempt = @ + 1,
                   !.caught = err.kind]
    ELSE Failed([q EXCEPT !.caught = err.kind], verdict)

\* a request reaches the decorator; toks = the tokens clients may present
Arrive(r, toks, limit) ==
    /\ reqs[r].pc \in {"idle", "done"}
    /\ served < limit
    /\ \E c \in Clients, h \in HeaderKinds, tok \in toks :
          /\ h \in {"absent", "no_token"} => tok = GoodToken(now)
          /\ reqs' = [reqs EXCEPT ![r] = [IdleReq EXCEPT !.pc = "start", !.client = c,
                                                        !.header = h, !.tok = tok]]
    /\ served' = served + 1
    /\ UNCHANGED <<lockVars, now, NODE_ENV, jwt_leeway, storeVars, _cache, _failed_attempts,
                   remote_calls, ticks, freqs, blob_calls>>

\* lines 27-59 and 75-78: header, token extraction, local verification
LocalOutcome(q, t, lw, env) ==
    LET v == verify_supabase_jwt(q.tok, t, lw, env) IN
    IF q.header = "absent" THEN create_error("Access token required", 401)
    ELSE IF q.header = "no_token"
    THEN create_error("Invalid authorization header format", 401)
    ELSE IF v.kind # "decoded" THEN v
    ELSE IF q.tok.sub = None THEN create_error("Token missing user ID", 401)
    ELSE IF q.tok.email = None THEN create_error("Token missing email", 401)
    ELSE v

VerifyToken(r) ==
    /\ reqs[r].pc = "start"
    /\ LET q == reqs[r]
           v == LocalOutcome(q, now, jwt_leeway, NODE_ENV)
       IN  reqs' = [reqs EXCEPT ![r] =
              IF v.kind = "decoded"
              THEN [q EXCEPT !.pc = "resolve", !.verify = v, !.at = now, !.local = TRUE,
                             !.uid = q.tok.sub, !.email = q.tok.email,
                             !.full_name = q.tok.full_name]
              ELSE IF v.kind # "AppError"
              THEN [q EXCEPT !.pc = "fallback", !.verify = v, !.at = now]
              ELSE Failed([q EXCEPT !.verify = v, !.at = now], v)]
    /\ UNCHANGED <<lockVars, now, NODE_ENV, jwt_leeway, storeVars, _cache, _failed_attempts,
                   remote_calls, served, ticks, freqs, blob_calls>>

\* lines 61-74 and 77-90: the remote fallback after a signature mismatch
\* (ValueError) or any other exception that is not an AppError.  The remote
\* authority answers with the user the token asserts, or with no user / an error.
RemoteFallback(r) ==
    /\ reqs[r].pc = "fallback"
    /\ LET q == [reqs[r] EXCEPT !.remote = @ + 1] IN
       \E accepted \in BOOLEAN :
          /\ accepted => q.tok.sub # None /\ q.tok.email # None
          /\ reqs' = [reqs EXCEPT ![r] =
                IF accepted
                THEN [q EXCEPT !.pc = "resolve", !.uid = q.tok.sub,
                               !.email = q.tok.email, !.full_name = q.tok.full_name]
                ELSE Failed(q, create_error("Invalid or expired token", 401))]
    /\ remote_calls' = [remote_calls EXCEPT ![reqs[r].client] = Append(@, now)]
    /\ UNCHANGED <<lockVars, now, NODE_ENV, jwt_leeway, storeVars, _cache, _failed_attempts,
                   served, ticks, freqs, blob_calls>>

\* mutant: the cached id is used without looking at the row it names
cache_hit_unchecked(rows, cached_user_id, uid) == cached_user_id # None

\* lines 102-105: if cached_user_id: user = User.query.get(cached_user_id);
\* if user and user.supabase_uid == supabase_uid
cache_hit(rows, cached_user_id, uid) ==
    /\ cached_user_id # None
    /\ \E u \in rows : u.id = cached_user_id /\ u.supabase_uid = uid

\* lines 102-124: identity cache, then the primary-key lookup of the cached id
CacheLookup(r) ==
    /\ reqs[r].pc = "resolve"
    /\ LET q == reqs[r]
           cached_user_id == cache_get_value(_cache, q.uid, now)
           hit == cache_hit(users, cached_user_id, q.uid)
       IN  reqs' = [reqs EXCEPT ![r] =
              IF hit THEN [q EXCEPT !.pc = "handler", !.user = cached_user_id, !.via = "cache"]
              ELSE [q EXCEPT !.pc = "query_sub"]]
    /\ _cache' = cache_after_get(_cache, reqs[r].uid, now)
    /\ UNCHANGED <<lockVars, now, NODE_ENV, jwt_leeway, storeVars, _failed_attempts,
                   remote_calls, served, ticks, freqs, blob_calls>>

\* line 127: User.query.filter_by(supabase_uid=supabase_uid).first()
QueryBySub(r) ==
    /\ reqs[r].pc = "query_sub"
    /\ LET q == reqs[r] IN
       reqs' = [reqs EXCEPT ![r] =
          IF \E u \in users : u.supabase_uid = q.uid
          THEN [q EXCEPT !.pc = "finish", !.via = "store",
                         !.user = (CHOOSE u \in users : u.supabase_uid = q.uid).id]
          ELSE [q EXCEPT !.pc = "query_email"]]
    /\ UNCHANGED <<lockVars, now, NODE_ENV, jwt_leeway, storeVars, _cache, _failed_attempts,
                   remote_calls, served, ticks, freqs, blob_calls>>

\* line 127 raises OperationalError: the connection to the store is lost
ConnectionLost(r) ==
    /\ reqs[r].pc = "query_sub"
    /\ reqs' = [reqs EXCEPT ![r] = OnLoopException(reqs[r], OperationalError)]
    /\ UNCHANGED <<lockVars, now, NODE_ENV, jwt_leeway, storeVars, _cache, _failed_attempts,
                   remote_calls, served, ticks, freqs, blob_calls>>

\* lines 130-135: lookup by email, back-filling supabase_uid on a row without one
QueryByEmail(r) ==
    /\ reqs[r].pc = "query_email"
    /\ LET q == reqs[r] IN
       IF \E u \in users : u.email = q.email
       THEN LET u == CHOOSE x \in users : x.email = q.email
                linked == [u EXCEPT !.supabase_uid = q.uid]
            IN  IF u.supabase_uid # None
                THEN /\ reqs' = [reqs EXCEPT ![r] =
                            [q EXCEPT !.pc = "finish", !.via = "store", !.user = u.id]]
                     /\ users' = users
                ELSE IF UserUniqueViolation(users, linked) # {}
                THEN /\ reqs' = [reqs EXCEPT ![r] =
                            OnLoopException(q, UserIntegrityError(users, linked))]
                     /\ users' = users
                ELSE /\ reqs' = [reqs EXCEPT ![r] =
                            [q EXCEPT !.pc = "finish", !.via = "store", !.user = u.id]]
                     /\ users' = (users \ {u}) \cup {linked}
       ELSE /\ reqs' = [reqs EXCEPT ![r].pc = "create"]
            /\ users' = users
    /\ UNCHANGED <<lockVars, now, NODE_ENV, jwt_leeway, data_rooms, folders, files, next_id,
                   _cache, _failed_attempts, remote_calls, served, ticks, freqs,
                   blob_calls>>

\* rows other sessions have flushed but not yet committed
PendingOfOthers(r) == UNION {reqs[o].pending : o \in ReqIds \ {r}}

\* lines 137-153: INSERT of the new user (session.add + flush).  An INSERT that
\* collides with another session's uncommitted row waits for that session.
CreateUser(r) ==
    /\ reqs[r].pc = "create"
    /\ LET q == reqs[r]
           name == DisplayName(q.full_name, q.email)
           row == UserRow(UserId(next_id.user), q.email, q.uid, name)
       IN  /\ UserUniqueViolation(PendingOfOthers(r), row) = {}
           /\ reqs' = [reqs EXCEPT ![r] =
                 IF UserUniqueViolation(users, row) # {}
                 THEN OnLoopException(q, UserIntegrityError(users, row))
                 ELSE [q EXCEPT !.pc = "flushed", !.pending = {row}]]
           /\ next_id' = IF UserUniqueViolation(users, row) # {} THEN next_id
                          ELSE [next_id EXCEPT !.user = @ + 1]
    /\ UNCHANGED <<lockVars, now, NODE_ENV, jwt_leeway, users, data_rooms, folders, files,
                   _cache, _failed_attempts, remote_calls, served, ticks, freqs,
                   blob_calls>>

\* lines 155-163: INSERT of the default data room and COMMIT of both rows
CommitUser(r) ==
    /\ reqs[r].pc = "flushed"
    /\ LET q == reqs[r]
           row == CHOOSE u \in q.pending : TRUE
           room == DataRoomRow("d" \o row.id, DefaultDataRoomName(row.name), row.id)
       IN  /\ users' = users \cup {row}
           /\ data_rooms' = data_rooms \cup {room}
           /\ reqs' = [reqs EXCEPT ![r] =
                 [q EXCEPT !.pc = "finish", !.pending = {}, !.via = "created",
                           !.user = row.id]]
    /\ UNCHANGED <<lockVars, now, NODE_ENV, jwt_leeway, folders, files, next_id,
                   _cache, _failed_attempts, remote_calls, served, ticks, freqs,
                   blob_calls>>

\* lines 165-169: set_user_id_in_cache and g.user = user
Finish(r) ==
    /\ reqs[r].pc = "finish"
    /\ _cache' = set_user_id_in_cache(_cache, reqs[r].uid, reqs[r].user, now)
    /\ reqs' = [reqs EXCEPT ![r].pc = "handler"]
    /\ UNCHANGED <<lockVars, now, NODE_ENV, jwt_leeway, storeVars, _failed_attempts,
                   remote_calls, served, ticks, freqs, blob_calls>>

\* lines 123 and 186: return f(*args, **kwargs), here get_current_user (/me)
RunHandler(r) ==
    /\ reqs[r].pc = "handler"
    /\ reqs' = [reqs EXCEPT ![r].pc = "done", ![r].status = 200,
                            ![r].message = "success", ![r].handler_runs = @ + 1]
    /\ UNCHANGED <<lockVars, now, NODE_ENV, jwt_leeway, storeVars, _cache, _failed_attempts,
                   remote_calls, served, ticks, freqs, blob_calls>>

\* the wall clock advances
Tick ==
    /\ ticks < MaxTicks
    /\ \E d \in {60, 300} : now' = now + d
    /\ ticks' = ticks + 1
    /\ UNCHANGED <<lockVars, NODE_ENV, jwt_leeway, storeVars, _cache, _failed_attempts, reqs,
                   remote_calls, served, freqs, blob_calls>>

\* ------------------------------------------------------------ rate_limiter
FallbackKey(identifier) == identifier \o ":fallback"

Attempts(key) == IF key \in DOMAIN _failed_attempts THEN _failed_attempts[key] ELSE <<>>

\* ------------------------------------------------------------ folder tree
FolderNames == {"Reports", "reports", "timeout"}
FileNames == {"a.pdf"}
FReqIds == 1 .. NFolderReqs
FolderOps == {"create_folder", "rename_folder", "move_folder", "delete_folder",
              "upload_complete", "delete_file"}

\* PostgreSQL lower(name)
lower(name) ==
    IF name = "Reports" THEN "reports" ELSE IF name = "A.pdf" THEN "a.pdf" ELSE name

FolderRow(id, name, dr, parent, user_id) ==
    [id |-> id, name |-> name, data_room_id |-> dr, parent_folder_id |-> parent,
     user_id |-> user_id]
FileRow(id, name, dr, folder, user_id, path) ==
    [id |-> id, name |-> name, data_room_id |-> dr, folder_id |-> folder,
     user_id |-> user_id, file_path |-> path]

COALESCE(value, default) == IF value = None THEN default ELSE value

\* mutant: the unique index built on name instead of lower(name)
FolderKeyCaseSensitive(row) ==
    row.data_room_id \o "|" \o COALESCE(row.parent_folder_id, "") \o "|" \o row.name

\* idx_folder_unique: data_room_id || '|' || COALESCE(parent_folder_id, '') || '|' || lower(name)
FolderUniqueKey(row) ==
    row.data_room_id \o "|" \o COALESCE(row.parent_folder_id, "") \o "|" \o lower(row.name)

\* idx_file_unique: data_room_id || '|' || COALESCE(folder_id, '') || '|' || lower(name)
FileUniqueKey(row) ==
    row.data_room_id \o "|" \o COALESCE(row.folder_id, "") \o "|" \o lower(row.name)

FolderIds(fs) == {f.id : f \in fs}

\* the IntegrityError an INSERT or UPDATE producing `row` raises ({} = none):
\* foreign keys folders.data_room_id and folders.parent_folder_id, then the
\* unique index
FolderViolation(fs, rooms, row) ==
    IF row.data_room_id \notin {d.id : d \in rooms}
    THEN {"foreign key", "data_room_id"}
    ELSE IF row.parent_folder_id # None /\ row.parent_folder_id \notin FolderIds(fs)
    THEN {"foreign key", "parent_folder_id"}
    ELSE IF \E f \in fs : f.id # row.id /\ FolderUniqueKey(f) = FolderUniqueKey(row)
    THEN {"duplicate", "unique", "idx_folder_unique"}
    ELSE {}

FileViolation(fl, fs, rooms, row) ==
    IF row.data_room_id \notin {d.id : d \in rooms}
    THEN {"foreign key", "data_room_id"}
    ELSE IF row.folder_id # None /\ row.folder_id \notin FolderIds(fs)
    THEN {"foreign key", "folder_id"}
    ELSE IF \E f \in fl : f.id # row.id /\ FileUniqueKey(f) = FileUniqueKey(row)
    THEN {"duplicate", "unique", "idx_file_unique"}
    ELSE {}

IntegrityError(text, name) ==
    Exc("IntegrityError", "integrity constraint violated", 0, text \cup KeywordsIn(name))
StaleDataError == Exc("StaleDataError", "UPDATE statement on table expected to update 1 row(s); 0 were matched", 0, {})
RecursionError == Exc("RecursionError", "maximum recursion depth exceeded", 0, {})

\* Folder.query.join(DataRoom).filter(Folder.id == id, DataRoom.user_id == g.user.id)
OwnedFolders(fs, rooms, id, user_id) ==
    {f \in fs : f.id = id
                /\ \E d \in rooms : d.id = f.data_room_id /\ d.user_id = user_id}

ownership_exists(rooms, dr, user_id) ==
    \E d \in rooms : d.id = dr /\ d.user_id = user_id

\* delete_folder_recursive: the rows it marks deleted and the blob deletes it
\* issues, in order; overflow = the recursion exceeded the interpreter's limit
\* (depth counts the frames left).  Every query autoflushes the session, so it
\* no longer returns the rows the recursion has already marked deleted (acc).
RECURSIVE delete_folder_recursive(_, _, _, _, _)
RECURSIVE delete_children(_, _, _, _, _)

NoDeletion == [overflow |-> FALSE, folder_ids |-> {}, file_ids |-> {}, blobs |-> <<>>]

Range(seq) == {seq[i] : i \in 1 .. Len(seq)}

RECURSIVE SeqOfFiles(_)
SeqOfFiles(S) ==
    IF S = {} THEN <<>>
    ELSE LET f == CHOOSE x \in S : TRUE IN <<f>> \o SeqOfFiles(S \ {f})

\* for child_folder in child_folders: delete_folder_recursive(child_folder.id)
delete_children(fs, fl, children, depth, acc) ==
    IF children = {} \/ acc.overflow THEN acc
    ELSE LET c == CHOOSE x \in children : TRUE IN
         delete_children(fs, fl, children \ {c}, depth,
                         delete_folder_recursive(fs, fl, c.id, depth - 1, acc))

delete_folder_recursive(fs, fl, folder_id, depth, acc) ==
    IF depth = 0 THEN [acc EXCEPT !.overflow = TRUE]
    ELSE LET child_folders == {f \in fs : f.parent_folder_id = folder_id
                                          /\ f.id \notin acc.folder_ids}
             sub == delete_children(fs, fl, child_folders, depth, acc)
             here == {f \in fl : f.folder_id = folder_id /\ f.id \notin sub.file_ids}
             withPath == SeqOfFiles({f \in here : f.file_path # None})
             folder == {f.id : f \in {g \in fs : g.id = folder_id}} \ sub.folder_ids
         IN  IF sub.overflow THEN sub
             ELSE [overflow |-> FALSE,
                   folder_ids |-> sub.folder_ids \cup folder,
                   file_ids |-> sub.file_ids \cup {f.id : f \in here},
                   blobs |-> sub.blobs \o withPath]

\* frames available to the recursion: more than any acyclic chain needs
RecursionDepth(fs) == Cardinality(fs) + 1

FolderId(n) == "f" \o ToString(n)
FileId(n) == "b" \o ToString(n)
BlobPath(user_id, n) == "uploads/" \o user_id \o "/" \o ToString(n)

IdleF ==
    [pc |-> "idle", op |-> "", user |-> "", id |-> None, name |-> "",
     parent |-> None, dr |-> "", path |-> None, attempt |-> 0, status |-> 0,
     message |-> "", current |-> {}, breadcrumb |-> <<>>]

\* file_path = file.file_path, read from the row the view loaded
BlobPathOf(fl, id) ==
    IF \E f \in fl : f.id = id THEN (CHOOSE f \in fl : f.id = id).file_path ELSE None

\* the request has ended: only its response is kept
Completed(q, status, message) ==
    [IdleF EXCEPT !.op = q.op, !.status = status, !.message = message]

\* an exception leaves the view: authenticate_token's loop catches it first,
\* then the global error handler answers
Raised(q, err) ==
    LET verdict == LoopVerdict(err, q.attempt) IN
    IF verdict = Retry
    THEN [q EXCEPT !.pc = "retry", !.attempt = @ + 1]
    ELSE LET resp == error_handler(verdict, NODE_ENV) IN
         Completed(q, resp.status, resp.message)

\* the queries a view runs before it writes: the exception they end in
LoadError(q) ==
    IF q.op \in {"create_folder", "upload_complete"}
    THEN IF ownership_exists(data_rooms, q.dr, q.user) THEN NoError
         ELSE create_error("Data room not found", 404)
    ELSE IF q.op \in {"delete_file", "update_file"}
    THEN IF \E f \in files : f.id = q.id /\ f.user_id = q.user THEN NoError
         ELSE create_error("File not found", 404)
    ELSE IF OwnedFolders(folders, data_rooms, q.id, q.user) = {}
    THEN create_error("Folder not found", 404)
    ELSE IF q.op = "move_folder" /\ q.parent # None
            /\ ~\E p \in folders :
                   /\ p.id = q.parent
                   /\ \E f \in OwnedFolders(folders, data_rooms, q.id, q.user) :
                          p.data_room_id = f.data_room_id
    THEN create_error("New parent folder not found", 404)
    ELSE NoError

AfterLoad(q) ==
    IF LoadError(q) = NoError THEN [q EXCEPT !.pc = "commit"]
    ELSE Raised(q, LoadError(q))

EverFolderIds == {FolderId(n) : n \in 1 .. (next_id.folder - 1)}
EverFileIds == {FileId(n) : n \in 1 .. (next_id.file - 1)}
FUsers == {"u1", "u2"}
FRooms == {"d1"}

\* the requests clients send for data rooms in `rooms`
RequestsIn(op, rooms) ==
    IF op = "create_folder"
    THEN {[IdleF EXCEPT !.op = op, !.user = u, !.name = n, !.parent = p, !.dr = d] :
            u \in FUsers, n \in FolderNames, p \in EverFolderIds \cup {None}, d \in rooms}
    ELSE IF op = "rename_folder"
    THEN {[IdleF EXCEPT !.op = op, !.user = u, !.id = i, !.name = n] :
            u \in FUsers, i \in EverFolderIds, n \in FolderNames}
    ELSE IF op = "move_folder"
    THEN {[IdleF EXCEPT !.op = op, !.user = u, !.id = i, !.parent = p] :
            u \in FUsers, i \in EverFolderIds, p \in EverFolderIds \cup {None}}
    ELSE IF op = "delete_folder"
    THEN {[IdleF EXCEPT !.op = op, !.user = u, !.id = i] :
            u \in FUsers, i \in EverFolderIds}
    ELSE IF op = "delete_file"
    THEN {[IdleF EXCEPT !.op = op, !.user = u, !.id = i, !.path = BlobPathOf(files, i)] :
            u \in FUsers, i \in EverFileIds}
    ELSE {[IdleF EXCEPT !.op = op, !.user = u, !.name = n, !.parent = p, !.dr = d] :
            u \in FUsers, n \in FileNames, p \in EverFolderIds \cup {None}, d \in rooms}

RequestsOf(op) == RequestsIn(op, FRooms)

\* an authenticated request enters its view and runs the view's first queries
FBeginIn(r, ops, rooms) ==
    /\ freqs[r].pc = "idle"
    /\ served < MaxFolderRequests
    /\ \E op \in ops : \E q \in RequestsIn(op, rooms) :
          /\ op = "create_folder" => next_id.folder <= MaxFolders
          /\ op = "upload_complete" => next_id.file <= MaxFiles
          /\ freqs' = [freqs EXCEPT ![r] = AfterLoad(q)]
    /\ served' = served + 1
    /\ UNCHANGED <<lockVars, now, NODE_ENV, jwt_leeway, storeVars, _cache, _failed_attempts,
                   reqs, remote_calls, ticks, blob_calls>>

FBeginOf(r, ops) == FBeginIn(r, ops, FRooms)

FBegin(r) == FBeginOf(r, FolderOps)

\* the loop of authenticate_token calls the view again
FRetry(r) ==
    /\ freqs[r].pc = "retry"
    /\ freqs' = [freqs EXCEPT ![r] = AfterLoad(freqs[r])]
    /\ UNCHANGED <<lockVars, now, NODE_ENV, jwt_leeway, storeVars, _cache, _failed_attempts,
                   reqs, remote_calls, served, ticks, blob_calls>>

\* create_folder lines 334-350: INSERT and COMMIT
CommitCreate(r) ==
    /\ freqs[r].pc = "commit" /\ freqs[r].op = "create_folder"
    /\ LET q == freqs[r]
           row == FolderRow(FolderId(next_id.folder), q.name, q.dr, q.parent, q.user)
           bad == FolderViolation(folders, data_rooms, row)
       IN  IF bad # {}
           THEN /\ freqs' = [freqs EXCEPT ![r] = Raised(q, IntegrityError(bad, q.name))]
                /\ UNCHANGED <<folders, next_id>>
           ELSE /\ folders' = folders \cup {row}
                /\ next_id' = [next_id EXCEPT !.folder = @ + 1]
                /\ freqs' = [freqs EXCEPT ![r] =
                                [Completed(q, 201, "Folder created successfully")
                                    EXCEPT !.id = row.id]]
    /\ UNCHANGED <<lockVars, now, NODE_ENV, jwt_leeway, users, data_rooms, files, _cache,
                   _failed_attempts, reqs, remote_calls, served, ticks, blob_calls>>

\* rename_folder lines 411-434: UPDATE name and COMMIT
CommitRename(r) ==
    /\ freqs[r].pc = "commit" /\ freqs[r].op = "rename_folder"
    /\ LET q == freqs[r] IN
       IF q.id \notin FolderIds(folders)
       THEN /\ freqs' = [freqs EXCEPT ![r] = Raised(q, StaleDataError)]
            /\ UNCHANGED folders
       ELSE LET old == CHOOSE f \in folders : f.id = q.id
                row == [old EXCEPT !.name = q.name]
                bad == FolderViolation(folders, data_rooms, row)
            IN  IF "idx_folder_unique" \in bad
                THEN /\ freqs' = [freqs EXCEPT ![r] = Raised(q,
                        create_error("A folder with this name already exists in this location", 409))]
                     /\ UNCHANGED folders
                ELSE IF bad # {}
                THEN /\ freqs' = [freqs EXCEPT ![r] = Raised(q, IntegrityError(bad, q.name))]
                     /\ UNCHANGED folders
                ELSE /\ folders' = (folders \ {old}) \cup {row}
                     /\ freqs' = [freqs EXCEPT ![r] = Completed(q, 200, "success")]
    /\ UNCHANGED <<lockVars, now, NODE_ENV, jwt_leeway, users, data_rooms, files, next_id, _cache,
                   _failed_attempts, reqs, remote_calls, served, ticks, blob_calls>>

\* move_folder lines 472-478: UPDATE parent_folder_id and COMMIT
CommitMove(r) ==
    /\ freqs[r].pc = "commit" /\ freqs[r].op = "move_folder"
    /\ LET q == freqs[r] IN
       IF q.id \notin FolderIds(folders)
       THEN /\ freqs' = [freqs EXCEPT ![r] = Raised(q, StaleDataError)]
            /\ UNCHANGED folders
       ELSE LET old == CHOOSE f \in folders : f.id = q.id
                row == [old EXCEPT !.parent_folder_id = q.parent]
                bad == FolderViolation(folders, data_rooms, row)
            IN  IF bad # {}
                THEN /\ freqs' = [freqs EXCEPT ![r] = Raised(q, IntegrityError(bad, old.name))]
                     /\ UNCHANGED folders
                ELSE /\ folders' = (folders \ {old}) \cup {row}
                     /\ freqs' = [freqs EXCEPT ![r] = Completed(q, 200, "success")]
    /\ UNCHANGED <<lockVars, now, NODE_ENV, jwt_leeway, users, data_rooms, files, next_id, _cache,
                   _failed_attempts, reqs, remote_calls, served, ticks, blob_calls>>

\* delete_supabase_file(file.file_path): one call to the blob store; the store
\* fails the calls for the files in `failing`
BlobCall(file, failing) ==
    [file |-> file.id, path |-> file.file_path, ok |-> file.id \notin failing]

\* mutant: the loop over the files issues no blob delete
BlobCallsNone(fileSeq, failing) == <<>>

BlobCalls(fileSeq, failing) ==
    [i \in 1 .. Len(fileSeq) |-> BlobCall(fileSeq[i], failing)]

\* mutant: an error of the blob store leaves the try block
blob_error_raised(calls) ==
    IF \E i \in 1 .. Len(calls) : ~calls[i].ok
    THEN Exc("Exception", "Failed to delete file", 0, {})
    ELSE NoError

\* folder_routes.py lines 496-499 and file_routes.py lines 341-345: the call
\* sits in try/except Exception, which prints the error and goes on
blob_error(calls) == NoError

\* get_folder_tree lines 208-219: the access check, then build_breadcrumb's
\* first query
TreeBegin(r) ==
    /\ freqs[r].pc = "idle"
    /\ served < MaxFolderRequests
    /\ \E u \in FUsers, i \in EverFolderIds :
          LET q == [IdleF EXCEPT !.op = "get_folder_tree", !.user = u, !.id = i] IN
          freqs' = [freqs EXCEPT ![r] =
             IF OwnedFolders(folders, data_rooms, i, u) = {}
             THEN Raised(q, create_error("Folder not found", 404))
             ELSE [q EXCEPT !.pc = "walk", !.current = {f \in folders : f.id = i}]]
    /\ served' = served + 1
    /\ UNCHANGED <<lockVars, now, NODE_ENV, jwt_leeway, storeVars, _cache, _failed_attempts,
                   reqs, remote_calls, ticks, blob_calls>>

\* mutant: breadcrumb.append(...)
breadcrumb_append(breadcrumb, id) == Append(breadcrumb, id)

\* breadcrumb.insert(0, ...), keeping the newest MaxBreadcrumb entries
breadcrumb_insert(breadcrumb, id) ==
    SubSeq(<<id>> \o breadcrumb, 1,
           IF Len(breadcrumb) < MaxBreadcrumb THEN Len(breadcrumb) + 1 ELSE MaxBreadcrumb)

\* get_folder_tree lines 234-247: the response carries the breadcrumb
TreeResponse(q, breadcrumb) ==
    [Completed(q, 200, "success") EXCEPT !.id = q.id, !.breadcrumb = breadcrumb]

\* build_breadcrumb lines 221-232: one iteration of `while current`
WalkStep(r) ==
    /\ freqs[r].pc = "walk"
    /\ LET q == freqs[r] IN
       freqs' = [freqs EXCEPT ![r] =
          IF q.current = {} THEN TreeResponse(q, q.breadcrumb)
          ELSE LET current == CHOOSE f \in q.current : TRUE
                   breadcrumb == breadcrumb_insert(q.breadcrumb, current.id)
               IN  IF current.parent_folder_id # None
                   THEN [q EXCEPT !.breadcrumb = breadcrumb,
                                  !.current = {f \in folders : f.id = current.parent_folder_id}]
                   ELSE TreeResponse(q, breadcrumb)]
    /\ UNCHANGED <<lockVars, now, NODE_ENV, jwt_leeway, storeVars, _cache, _failed_attempts,
                   reqs, remote_calls, served, ticks, blob_calls>>

\* mutant: the deletes flushed before an exception are not rolled back
session_end_without_rollback(res) == res

\* delete_folder lines 528-540: db.session.commit() makes every delete the
\* recursion marked permanent at once; an exception raised before it reaches
\* db.session.rollback(), which discards them all
session_end(res) ==
    IF res.overflow THEN [res EXCEPT !.folder_ids = {}, !.file_ids = {}] ELSE res

\* delete_folder lines 527-540: the recursive delete, then COMMIT or ROLLBACK
CommitDelete(r) ==
    /\ freqs[r].pc = "commit" /\ freqs[r].op = "delete_folder"
    /\ LET q == freqs[r]
           res == delete_folder_recursive(folders, files, q.id,
                                          RecursionDepth(folders), NoDeletion)
       IN  \E commit_fails \in BOOLEAN, failing \in SUBSET {f.id : f \in Range(res.blobs)} :
           LET calls == BlobCalls(res.blobs, failing)
               failed == res.overflow \/ commit_fails \/ blob_error(calls) # NoError
               applied == session_end([res EXCEPT !.overflow = failed])
           IN  /\ commit_fails => ~res.overflow /\ failing = {}
               /\ Len(blob_calls) + Len(calls) <= MaxBlobCalls
               /\ blob_calls' = blob_calls \o calls
               /\ folders' = {f \in folders : f.id \notin applied.folder_ids}
               /\ files' = {f \in files : f.id \notin applied.file_ids}
               /\ freqs' = [freqs EXCEPT ![r] =
                     IF blob_error(calls) # NoError THEN Raised(q, blob_error(calls))
                     ELSE IF res.overflow THEN Raised(q, RecursionError)
                     ELSE IF commit_fails THEN Raised(q, OperationalError)
                     ELSE Completed(q, 200, "Folder deleted successfully")]
    /\ UNCHANGED <<lockVars, now, NODE_ENV, jwt_leeway, users, data_rooms, next_id, _cache,
                   _failed_attempts, reqs, remote_calls, served, ticks>>

\* delete_file lines 330-351: DELETE and COMMIT, then the blob delete in a
\* background thread
CommitDeleteFile(r) ==
    /\ freqs[r].pc = "commit" /\ freqs[r].op = "delete_file"
    /\ \E commit_fails, blob_fails \in BOOLEAN :
       LET q == freqs[r]
           calls == IF q.path # None
                    THEN <<[file |-> q.id, path |-> q.path, ok |-> ~blob_fails]>>
                    ELSE <<>>
       IN  IF commit_fails
           THEN /\ ~blob_fails
                /\ freqs' = [freqs EXCEPT ![r] = Raised(q, OperationalError)]
                /\ UNCHANGED <<files, blob_calls>>
           ELSE /\ Len(blob_calls) + Len(calls) <= MaxBlobCalls
                /\ files' = {f \in files : f.id # q.id}
                /\ blob_calls' = blob_calls \o calls
                /\ freqs' = [freqs EXCEPT ![r] =
                      IF blob_error(calls) # NoError THEN Raised(q, blob_error(calls))
                      ELSE Completed(q, 204, "")]
    /\ UNCHANGED <<lockVars, now, NODE_ENV, jwt_leeway, users, data_rooms, folders, next_id,
                   _cache, _failed_attempts, reqs, remote_calls, served, ticks>>

\* upload_complete lines 193-217: INSERT of the file row and COMMIT.  The
\* row's file_path is the filePath of the request body (line 161); a request
\* without one here stands for the client that sends the path get_upload_url
\* gave it, under uploads/<its user id>.
CommitUpload(r) ==
    /\ freqs[r].pc = "commit" /\ freqs[r].op = "upload_complete"
    /\ LET q == freqs[r]
           row == FileRow(FileId(next_id.file), q.name, q.dr, q.parent, q.user,
                          COALESCE(q.path, BlobPath(q.user, next_id.file)))
           bad == FileViolation(files, folders, data_rooms, row)
       IN  IF "idx_file_unique" \in bad
           THEN /\ freqs' = [freqs EXCEPT ![r] = Raised(q,
                   create_error("A file with this name already exists in this location", 409))]
                /\ UNCHANGED <<files, next_id>>
           ELSE IF bad # {}
           THEN /\ freqs' = [freqs EXCEPT ![r] = Raised(q, IntegrityError(bad, q.name))]
                /\ UNCHANGED <<files, next_id>>
           ELSE /\ files' = files \cup {row}
                /\ next_id' = [next_id EXCEPT !.file = @ + 1]
                /\ freqs' = [freqs EXCEPT ![r] = Completed(q, 201, "success")]
    /\ UNCHANGED <<lockVars, now, NODE_ENV, jwt_leeway, users, data_rooms, folders, _cache,
                   _failed_attempts, reqs, remote_calls, served, ticks, blob_calls>>

\* update_file lines 78-100: UPDATE of the file's name and COMMIT
CommitRenameFile(r) ==
    /\ freqs[r].pc = "commit" /\ freqs[r].op = "update_file"
    /\ LET q == freqs[r] IN
       IF ~\E f \in files : f.id = q.id
       THEN /\ freqs' = [freqs EXCEPT ![r] = Raised(q, StaleDataError)]
            /\ UNCHANGED files
       ELSE LET old == CHOOSE f \in files : f.id = q.id
                row == [old EXCEPT !.name = q.name]
                bad == FileViolation(files, folders, data_rooms, row)
            IN  IF "idx_file_unique" \in bad
                THEN /\ freqs' = [freqs EXCEPT ![r] = Raised(q,
                        create_error("A file with this name already exists in this location", 409))]
                     /\ UNCHANGED files
                ELSE IF bad # {}
                THEN /\ freqs' = [freqs EXCEPT ![r] = Raised(q, IntegrityError(bad, q.name))]
                     /\ UNCHANGED files
                ELSE /\ files' = (files \ {old}) \cup {row}
                     /\ freqs' = [freqs EXCEPT ![r] = Completed(q, 200, "success")]
    /\ UNCHANGED <<lockVars, now, NODE_ENV, jwt_leeway, users, data_rooms, folders, next_id, _cache,
                   _failed_attempts, reqs, remote_calls, served, ticks, blob_calls>>

\* an authenticated request enters upload_complete, update_file or
\* delete_file and runs the view's first query
UploadNames == {"a.pdf", "A.pdf"}
FilesBegin(r) ==
    /\ freqs[r].pc = "idle"
    /\ served < MaxFolderRequests
    /\ \E u \in FUsers, n \in UploadNames, i \in EverFileIds \cup {None},
          p \in EverFolderIds \cup {None},
          filePath \in {None} \cup {BlobPath(v, 1) : v \in FUsers} :
          LET q == IF i = None
                   THEN [IdleF EXCEPT !.op = "upload_complete", !.user = u, !.name = n,
                                      !.parent = p, !.dr = "d1", !.path = filePath]
                   ELSE IF p = None
                   THEN [IdleF EXCEPT !.op = "update_file", !.user = u, !.id = i,
                                      !.name = n]
                   ELSE [IdleF EXCEPT !.op = "delete_file", !.user = u, !.id = i,
                                      !.path = BlobPathOf(files, i)]
          IN  /\ i # None => filePath = None
              /\ q.op = "upload_complete" => next_id.file <= MaxFiles + 1
              /\ freqs' = [freqs EXCEPT ![r] = AfterLoad(q)]
    /\ served' = served + 1
    /\ UNCHANGED <<lockVars, now, NODE_ENV, jwt_leeway, storeVars, _cache, _failed_attempts,
                   reqs, remote_calls, ticks, blob_calls>>

\* ------------------------------------------- user_cache and rate_limiter locks
ThreadIds == 1 .. NThreads
CacheOps == {"get_user_id_from_cache", "set_user_id_in_cache", "clear_user_cache"}
LimiterOps == {"check_rate_limit", "record_failed_attempt", "reset_rate_limit"}
\* User.query... (auth.py 127) and supabase.auth.get_user (auth.py 64)
CallOps == {"User.query", "supabase.auth.get_user"}

\* key = the subject or client identifier passed (None: clear_user_cache()),
\* value = the user id passed, entry / attempts / now = the function's locals
\* (the limiter reads now = time.time() before it takes the lock),
\* result / allowed = what it returns
IdleThread ==
    [pc |-> "idle", op |-> "", key |-> None, value |-> None, entry |-> {},
     attempts |-> <<>>, now |-> 0, result |-> None, allowed |-> TRUE]

NoHistory ==
    [puts |-> [uid \in Subjects |-> None], records |-> [c \in Clients |-> <<>>]]

\* mutant: `with lock:` does not wait for the holder
lock_ignored(lock) == TRUE

\* threading.Lock: acquire() returns when no thread holds the lock
lock_free(lock) == lock = 0

SetKey(f, k, v) == [x \in DOMAIN f \cup {k} |-> IF x = k THEN v ELSE f[x]]
DelKeys(f, ks) == [x \in DOMAIN f \ ks |-> f[x]]
InWindow(attempts, t, window) == SelectSeq(attempts, LAMBDA a : t - a < window)

\* a thread calls one of the functions; a store query or remote call starts
TBegin(t) ==
    /\ threads[t].pc = "idle"
    /\ served < MaxLockOps
    /\ \E op \in CacheOps \cup LimiterOps \cup CallOps :
       \E key \in (IF op \in CacheOps
                   THEN Subjects \cup (IF op = "clear_user_cache" THEN {None} ELSE {})
                   ELSE IF op \in LimiterOps THEN Clients ELSE {None}) :
       \E value \in (IF op = "set_user_id_in_cache" THEN {"u1", "u2"} ELSE {None}) :
          threads' = [threads EXCEPT ![t] =
             [IdleThread EXCEPT !.pc = IF op \in CallOps THEN "in_call" ELSE "acquire",
                                !.op = op, !.key = key, !.value = value,
                                !.now = IF op \in LimiterOps THEN now ELSE 0]]
    /\ served' = served + 1
    /\ UNCHANGED <<now, NODE_ENV, jwt_leeway, storeVars, _cache, _failed_attempts, reqs,
                   remote_calls, ticks, freqs, blob_calls, _cache_lock, _lock, history>>

\* the store or the remote authority answers
CallEnd(t) ==
    /\ threads[t].pc = "in_call"
    /\ threads' = [threads EXCEPT ![t].pc = "idle"]
    /\ UNCHANGED <<now, NODE_ENV, jwt_leeway, storeVars, _cache, _failed_attempts, reqs,
                   remote_calls, served, ticks, freqs, blob_calls, _cache_lock, _lock,
                   history>>

\* `with _cache_lock:` / `with _lock:` is entered
Acquire(t) ==
    /\ threads[t].pc = "acquire"
    /\ IF threads[t].op \in CacheOps
       THEN /\ lock_free(_cache_lock)
            /\ _cache_lock' = t
            /\ UNCHANGED _lock
       ELSE /\ lock_free(_lock)
            /\ _lock' = t
            /\ UNCHANGED _cache_lock
    /\ threads' = [threads EXCEPT ![t].pc = "locked"]
    /\ UNCHANGED <<now, NODE_ENV, jwt_leeway, storeVars, _cache, _failed_attempts, reqs,
                   remote_calls, served, ticks, freqs, blob_calls, history>>

\* user_cache.py 17-24: the entry is read; a live one is returned
CacheRead(t) ==
    /\ threads[t].pc = "locked" /\ threads[t].op = "get_user_id_from_cache"
    /\ LET q == threads[t]
           found == {e \in _cache : e.uid = q.key}
           live == {e \in found : now < e.expiry}
       IN  threads' = [threads EXCEPT ![t] =
              IF found = {} THEN [q EXCEPT !.pc = "release"]
              ELSE IF live # {}
              THEN [q EXCEPT !.pc = "release", !.entry = found,
                             !.result = (CHOOSE e \in live : TRUE).user_id]
              ELSE [q EXCEPT !.pc = "expired", !.entry = found]]
    /\ UNCHANGED <<now, NODE_ENV, jwt_leeway, storeVars, _cache, _failed_attempts, reqs,
                   remote_calls, served, ticks, freqs, blob_calls, _cache_lock, _lock,
                   history>>

\* user_cache.py 22-23: del _cache[supabase_uid] of the expired entry
CacheDelete(t) ==
    /\ threads[t].pc = "expired"
    /\ _cache' = {e \in _cache : e.uid # threads[t].key}
    /\ threads' = [threads EXCEPT ![t].pc = "release"]
    /\ UNCHANGED <<now, NODE_ENV, jwt_leeway, storeVars, _failed_attempts, reqs,
                   remote_calls, served, ticks, freqs, blob_calls, _cache_lock, _lock,
                   history>>

\* user_cache.py 28-30 and 34-38: the entry is stored, popped, or all cleared
CacheWrite(t) ==
    /\ threads[t].pc = "locked"
    /\ threads[t].op \in {"set_user_id_in_cache", "clear_user_cache"}
    /\ LET q == threads[t] IN
       /\ _cache' = IF q.op = "set_user_id_in_cache"
                    THEN set_user_id_in_cache(_cache, q.key, q.value, now)
                    ELSE IF q.key # None THEN {e \in _cache : e.uid # q.key}
                    ELSE {}
       /\ history' = IF q.op = "set_user_id_in_cache" THEN history
                     ELSE [history EXCEPT !.puts =
                             [uid \in Subjects |->
                                IF q.key \in {None, uid} THEN None ELSE @[uid]]]
    /\ threads' = [threads EXCEPT ![t].pc = "release"]
    /\ UNCHANGED <<now, NODE_ENV, jwt_leeway, storeVars, _failed_attempts, reqs,
                   remote_calls, served, ticks, freqs, blob_calls, _cache_lock, _lock>>

\* rate_limiter.py 52-56: attempts = _failed_attempts[identifier] and the
\* list of the attempts inside the window is built
LimiterFilter(t) ==
    /\ threads[t].pc = "locked" /\ threads[t].op = "check_rate_limit"
    /\ LET q == threads[t] IN
       /\ _failed_attempts' = SetKey(_failed_attempts, q.key, Attempts(q.key))
       /\ threads' = [threads EXCEPT ![t] =
             [q EXCEPT !.pc = "filtered",
                       !.attempts = InWindow(Attempts(q.key), q.now, RATE_LIMIT_WINDOW)]]
    /\ UNCHANGED <<now, NODE_ENV, jwt_leeway, storeVars, _cache, reqs,
                   remote_calls, served, ticks, freqs, blob_calls, _cache_lock, _lock,
                   history>>

\* rate_limiter.py 56-61: attempts[:] = ... and the verdict
LimiterAssign(t) ==
    /\ threads[t].pc = "filtered"
    /\ LET q == threads[t] IN
       /\ _failed_attempts' = IF q.key \in DOMAIN _failed_attempts
                              THEN [_failed_attempts EXCEPT ![q.key] = q.attempts]
                              ELSE _failed_attempts
       /\ threads' = [threads EXCEPT ![t] =
             [q EXCEPT !.pc = "release",
                       !.allowed = ~(Len(q.attempts) >= MAX_FAILED_ATTEMPTS)]]
    /\ UNCHANGED <<now, NODE_ENV, jwt_leeway, storeVars, _cache, reqs,
                   remote_calls, served, ticks, freqs, blob_calls, _cache_lock, _lock,
                   history>>

\* rate_limiter.py 71-72: the attempt is appended; 124-129: both keys of the
\* client are deleted.  (The clean-up of lines 75-81 needs more than 1000 keys.)
LimiterWrite(t) ==
    /\ threads[t].pc = "locked"
    /\ threads[t].op \in {"record_failed_attempt", "reset_rate_limit"}
    /\ LET q == threads[t] IN
       /\ _failed_attempts' =
             IF q.op = "record_failed_attempt"
             THEN SetKey(_failed_attempts, q.key, Append(Attempts(q.key), q.now))
             ELSE DelKeys(_failed_attempts, {q.key, FallbackKey(q.key)})
       /\ history' = IF q.op = "record_failed_attempt" THEN history
                     ELSE [history EXCEPT !.records[q.key] = <<>>]
    /\ threads' = [threads EXCEPT ![t].pc = "release"]
    /\ UNCHANGED <<now, NODE_ENV, jwt_leeway, storeVars, _cache, reqs,
                   remote_calls, served, ticks, freqs, blob_calls, _cache_lock, _lock>>

\* the `with` block is left and the function returns
Release(t) ==
    /\ threads[t].pc = "release"
    /\ LET q == threads[t] IN
       /\ threads' = [threads EXCEPT ![t].pc = "idle"]
       /\ IF q.op \in CacheOps
          THEN _cache_lock' = 0 /\ UNCHANGED _lock
          ELSE _lock' = 0 /\ UNCHANGED _cache_lock
       /\ history' =
             IF q.op = "set_user_id_in_cache"
             THEN [history EXCEPT !.puts[q.key] = q.value]
             ELSE IF q.op = "record_failed_attempt"
             THEN [history EXCEPT !.records[q.key] = Append(@, q.now)]
             ELSE history
    /\ UNCHANGED <<now, NODE_ENV, jwt_leeway, storeVars, _cache, _failed_attempts, reqs,
                   remote_calls, served, ticks, freqs, blob_calls>>

\* ------------------------------------------------------------- data rooms
DataRoomOps == {"get_data_rooms", "create_data_room", "delete_data_room"}
DataRoomNames == {"Board", "Data Room (timeout)"}
DataRoomId(n) == "r" \o ToString(n)

\* UniqueConstraint('user_id', 'name', name='uq_data_room_user_name')
DataRoomViolation(rooms, row) ==
    IF \E d \in rooms : d.id # row.id /\ d.user_id = row.user_id /\ d.name = row.name
    THEN {"duplicate", "unique", "uq_data_room_user_name"}
    ELSE {}

\* an authenticated request of user u enters one of the data room views;
\* delete_data_room raises at once
DRBegin(r) ==
    /\ freqs[r].pc = "idle"
    /\ served < MaxFolderRequests
    /\ \E op \in DataRoomOps, u \in users, n \in DataRoomNames :
          LET q == [IdleF EXCEPT !.op = op, !.user = u.id,
                                 !.name = IF op = "create_data_room" THEN n ELSE ""]
          IN  freqs' = [freqs EXCEPT ![r] =
                 IF op = "delete_data_room"
                 THEN Raised(q, create_error(
                        "Cannot delete Data Room. Every user must have at least one Data Room.",
                        403))
                 ELSE [q EXCEPT !.pc = "query"]]
    /\ served' = served + 1
    /\ UNCHANGED <<lockVars, now, NODE_ENV, jwt_leeway, storeVars, _cache, _failed_attempts,
                   reqs, remote_calls, ticks, blob_calls>>

\* DataRoom.query.filter_by(user_id=g.user.id).first(): any one of the user's
\* rows (the query has no ORDER BY); get_data_rooms answers if there is one
DRQuery(r) ==
    /\ freqs[r].pc \in {"query", "retry"}
    /\ freqs[r].op \in DataRoomOps
    /\ LET q == freqs[r]
           mine == {d \in data_rooms : d.user_id = q.user}
       IN  \E found \in (IF mine = {} THEN {{}} ELSE {{d} : d \in mine}) :
              freqs' = [freqs EXCEPT ![r] =
                 IF found # {} /\ q.op = "get_data_rooms"
                 THEN Completed(q, 200, "success")
                 ELSE [q EXCEPT !.pc = "commit", !.current = found]]
    /\ UNCHANGED <<lockVars, now, NODE_ENV, jwt_leeway, storeVars, _cache, _failed_attempts,
                   reqs, remote_calls, served, ticks, blob_calls>>

\* get_data_rooms lines 24-35 and create_data_room lines 58-69: INSERT of a
\* new row, or UPDATE of the name of the row found, and COMMIT
DRCommit(r) ==
    /\ freqs[r].pc = "commit" /\ freqs[r].op \in DataRoomOps
    /\ LET q == freqs[r]
           u == CHOOSE x \in users : x.id = q.user
           user_name == StripNickname(IF u.name # None THEN u.name ELSE LocalPart(u.email))
           name == IF q.op = "get_data_rooms" THEN DefaultDataRoomName(user_name)
                   ELSE q.name
           row == IF q.current = {}
                  THEN DataRoomRow(DataRoomId(Cardinality(data_rooms) + 1), name, q.user)
                  ELSE [(CHOOSE d \in q.current : TRUE) EXCEPT !.name = name]
           bad == DataRoomViolation(data_rooms, row)
       IN  IF bad # {}
           THEN /\ freqs' = [freqs EXCEPT ![r] = Raised(q, IntegrityError(bad, name))]
                /\ UNCHANGED data_rooms
           ELSE /\ data_rooms' = {d \in data_rooms : d.id # row.id} \cup {row}
                /\ freqs' = [freqs EXCEPT ![r] = Completed(q, 200, "success")]
    /\ UNCHANGED <<lockVars, now, NODE_ENV, jwt_leeway, users, folders, files, next_id, _cache,
                   _failed_attempts, reqs, remote_calls, served, ticks, blob_calls>>

\* ---------------------------------------------------------- specifications
LegacyUser == UserRow("u0", "timeout@x.com", None, "timeout")
\* a user who signed in before, with the data room created at that sign-in
LinkedUser == UserRow("u0", "timeout@x.com", "sub-456", "timeout")
LinkedUserRoom == DataRoomRow("du0", DefaultDataRoomName("timeout"), "u0")

\* no folder and no file has been created yet
EmptyTree ==
    /\ folders = {}
    /\ files = {}

InitCommon ==
    /\ now = 0
    /\ NODE_ENV \in {"development", "production"}
    /\ _cache = {}
    /\ _failed_attempts = [k \in {} |-> <<>>]
    /\ remote_calls = [c \in Clients |-> <<>>]
    /\ served = 0
    /\ ticks = 0
    /\ blob_calls = <<>>
    /\ threads = [t \in ThreadIds |-> IdleThread]
    /\ _cache_lock = 0
    /\ _lock = 0
    /\ history = NoHistory

\* Spec: requests pass through authenticate_token one after another
Init ==
    /\ InitCommon
    /\ EmptyTree
    /\ next_id = [user |-> 1, folder |-> 1, file |-> 1]
    /\ jwt_leeway \in {0, LEEWAY}
    /\ \/ users \in {{}, {LegacyUser}} /\ data_rooms = {}
       \/ users = {LinkedUser} /\ data_rooms = {LinkedUserRoom}
    /\ reqs = [r \in ReqIds |-> IdleReq]
    /\ freqs = [r \in FReqIds |-> IdleF]

Pipeline(r) ==
    \/ VerifyToken(r)
    \/ RemoteFallback(r)
    \/ CacheLookup(r)
    \/ QueryBySub(r)
    \/ ConnectionLost(r)
    \/ QueryByEmail(r)
    \/ CreateUser(r)
    \/ CommitUser(r)
    \/ Finish(r)
    \/ RunHandler(r)

Next ==
    \/ Arrive(1, Tokens(now), MaxAuthRequests)
    \/ Pipeline(1)
    \/ Tick

Spec == Init /\ [][Next]_vars

\* SpecFallback: one client keeps presenting tokens signed with a foreign key
FallbackTokens(t) ==
    {GoodToken(t), [GoodToken(t) EXCEPT !.sig = "other"]}

NextFallback ==
    \/ Arrive(1, FallbackTokens(now), MAX_FALLBACK_ATTEMPTS + 1)
    \/ Pipeline(1)
    \/ Tick

SpecFallback == Init /\ [][NextFallback]_vars

\* SpecRace: NRace requests with valid tokens for one never-seen subject are
\* past token verification and resolve the user concurrently
RaceReq(email, full_name) ==
    [IdleReq EXCEPT !.pc = "resolve", !.client = "10.0.0.1", !.header = "bearer",
                    !.verify = Decoded, !.local = TRUE, !.uid = "sub-123",
                    !.email = email, !.full_name = full_name,
                    !.tok = [GoodToken(0) EXCEPT !.email = email,
                                                 !.full_name = full_name]]

InitRace ==
    /\ InitCommon
    /\ EmptyTree
    /\ next_id = [user |-> 1, folder |-> 1, file |-> 1]
    /\ jwt_leeway \in {0, LEEWAY}
    /\ freqs = [r \in FReqIds |-> IdleF]
    /\ users = {}
    /\ data_rooms = {}
    /\ \E email \in Emails, full_name \in FullNames :
          reqs = [r \in ReqIds |-> RaceReq(email, full_name)]

Resolution(r) ==
    \/ CacheLookup(r)
    \/ QueryBySub(r)
    \/ QueryByEmail(r)
    \/ CreateUser(r)
    \/ CommitUser(r)
    \/ Finish(r)
    \/ RunHandler(r)

NextRace == \E r \in ReqIds : Resolution(r)

SpecRace == InitRace /\ [][NextRace]_vars

\* a tree two earlier create_folder and two upload_complete requests leave:
\* a root folder, a folder inside it, and one file in each
SeededTree ==
    /\ folders = {FolderRow("f1", "Reports", "d1", None, "u1"),
                  FolderRow("f2", "reports", "d1", "f1", "u1")}
    /\ files = {FileRow("b1", "a.pdf", "d1", "f1", "u1", BlobPath("u1", 1)),
                FileRow("b2", "a.pdf", "d1", "f2", "u1", BlobPath("u1", 2))}

InitFolders ==
    /\ InitCommon
    /\ \/ EmptyTree /\ next_id = [user |-> 3, folder |-> 1, file |-> 1]
       \/ SeededTree /\ next_id = [user |-> 3, folder |-> 3, file |-> 3]
    /\ jwt_leeway = LEEWAY
    /\ users = {UserRow("u1", "user@x.com", "sub-123", "user"),
                UserRow("u2", "timeout@x.com", "sub-456", "timeout")}
    /\ data_rooms = {DataRoomRow("d1", DefaultDataRoomName("user"), "u1"),
                     DataRoomRow("d2", DefaultDataRoomName("timeout"), "u2")}
    /\ reqs = [r \in ReqIds |-> IdleReq]
    /\ freqs = [r \in FReqIds |-> IdleF]

NextFolders ==
    \E r \in FReqIds :
        \/ FBegin(r)
        \/ FRetry(r)
        \/ CommitCreate(r)
        \/ CommitRename(r)
        \/ CommitMove(r)
        \/ CommitDelete(r)
        \/ CommitDeleteFile(r)
        \/ CommitUpload(r)

SpecFolders == InitFolders /\ [][NextFolders]_vars

\* threads call the cache and the limiter while the clock advances
InitLocks ==
    /\ InitCommon
    /\ EmptyTree
    /\ next_id = [user |-> 3, folder |-> 1, file |-> 1]
    /\ jwt_leeway = LEEWAY
    /\ users = {UserRow("u1", "user@x.com", "sub-123", "user"),
                UserRow("u2", "timeout@x.com", "sub-456", "timeout")}
    /\ data_rooms = {DataRoomRow("d1", DefaultDataRoomName("user"), "u1"),
                     DataRoomRow("d2", DefaultDataRoomName("timeout"), "u2")}
    /\ reqs = [r \in ReqIds |-> IdleReq]
    /\ freqs = [r \in FReqIds |-> IdleF]

NextLocks ==
    \/ Tick
    \/ \E t \in ThreadIds :
          \/ TBegin(t)
          \/ CallEnd(t)
          \/ Acquire(t)
          \/ CacheRead(t)
          \/ CacheDelete(t)
          \/ CacheWrite(t)
          \/ LimiterFilter(t)
          \/ LimiterAssign(t)
          \/ LimiterWrite(t)
          \/ Release(t)

SpecLocks == InitLocks /\ [][NextLocks]_vars

\* files are uploaded, renamed and deleted
NextFiles ==
    \E r \in FReqIds :
        \/ FilesBegin(r)
        \/ FRetry(r)
        \/ CommitUpload(r)
        \/ CommitRenameFile(r)
        \/ CommitDeleteFile(r)

SpecFiles == InitFolders /\ [][NextFiles]_vars

\* the data room views, called by a user the pipeline created (with the data
\* room created with it) and by a user linked over the e-mail path (no data room)
InitDataRooms ==
    /\ InitCommon
    /\ EmptyTree
    /\ next_id = [user |-> 3, folder |-> 1, file |-> 1]
    /\ jwt_leeway = LEEWAY
    /\ users = {UserRow("u1", "user@x.com", "sub-123", "user"), LinkedUser}
    /\ data_rooms = {DataRoomRow("d1", DefaultDataRoomName("user"), "u1")}
    /\ reqs = [r \in ReqIds |-> IdleReq]
    /\ freqs = [r \in FReqIds |-> IdleF]

NextDataRooms == \E r \in FReqIds : DRBegin(r) \/ DRQuery(r) \/ DRCommit(r)

SpecDataRooms == InitDataRooms /\ [][NextDataRooms]_vars

\* folders are created and moved in the data rooms of both users
AllRooms == {"d1", "d2"}

NextRooms ==
    \E r \in FReqIds :
        \/ FBeginIn(r, {"create_folder", "move_folder"}, AllRooms)
        \/ FRetry(r)
        \/ CommitCreate(r)
        \/ CommitMove(r)

SpecRooms == InitFolders /\ [][NextRooms]_vars

\* folders are moved while their breadcrumbs are read; the interpreter keeps
\* running a view it has entered
NextWalk ==
    \E r \in FReqIds :
        \/ FBeginOf(r, {"move_folder"})
        \/ CommitMove(r)
        \/ TreeBegin(r)
        \/ WalkStep(r)

SpecWalk ==
    /\ InitFolders
    /\ [][NextWalk]_vars
    /\ \A r \in FReqIds : WF_vars(WalkStep(r)) /\ WF_vars(CommitMove(r))

\* ------------------------------------------------------------------ claims
Started(q) == q.pc \notin {"idle", "start"}
HasToken(q) == q.header \in {"bearer", "basic"}
ValidlySigned(tok) == tok.wf /\ tok.sig \in {"service", "anon"}

\* C1: when local verification ends in anything but a signature mismatch (or
\* success), the request ends with 401 and supabase.auth.get_user was not
\* called for it; a validly signed token never reaches the remote fallback,
\* and one expired beyond the 60 s leeway is answered 401.
C1_RejectionIsNotRetriedRemotely ==
    \A r \in ReqIds :
        LET q == reqs[r] IN
        /\ (Started(q) /\ q.verify.kind = "AppError")
              => (q.pc = "done" /\ q.status = 401 /\ q.remote = 0)
        /\ (Started(q) /\ HasToken(q) /\ ValidlySigned(q.tok)) => q.remote = 0
        /\ (Started(q) /\ HasToken(q) /\ ValidlySigned(q.tok)
               /\ q.tok.exp + LEEWAY < q.at)
              => (q.pc = "done" /\ q.status = 401 /\ q.remote = 0)

C1_Witness ==
    \E r \in ReqIds :
        LET q == reqs[r] IN
        /\ q.pc = "done" /\ HasToken(q) /\ ValidlySigned(q.tok)
        /\ q.tok.sig = "anon"
        /\ q.tok.exp + LEEWAY < q.at
        /\ q.status = 401 /\ q.message = "Token expired" /\ q.remote = 0

\* remote verification calls of client c that are younger than the fallback window
RecentRemoteCalls(c) ==
    {i \in 1 .. Len(remote_calls[c]) : now - remote_calls[c][i] < FALLBACK_WINDOW}

\* C2: of the signature-mismatch requests one client sends inside one fallback
\* window, at most MAX_FALLBACK_ATTEMPTS reach supabase.auth.get_user: request
\* threshold+1 and every later one is rejected before any remote call.
C2_FallbackIsRateLimited ==
    \A c \in Clients :
        Cardinality(RecentRemoteCalls(c)) <= MAX_FALLBACK_ATTEMPTS

RaceSubject == "sub-123"
SubjectUsers == {u \in users : u.supabase_uid = RaceSubject}
RoomsOf(user_id) == {d \in data_rooms : d.user_id = user_id}
AllRaceDone == \A r \in ReqIds : reqs[r].pc = "done"

\* C3: whatever the interleaving of the concurrent first requests of one
\* unseen subject, the store never holds two User rows for the subject, a
\* committed User always has exactly one DataRoom, and when all requests have
\* ended there is exactly one User row and exactly one DataRoom row.
C3_OneUserOneDataRoom ==
    /\ Cardinality(SubjectUsers) <= 1
    /\ \A u \in users : Cardinality(RoomsOf(u.id)) = 1
    /\ AllRaceDone => (Cardinality(users) = 1 /\ Cardinality(SubjectUsers) = 1
                       /\ Cardinality(data_rooms) = 1)

\* all requests ended and one of them lost the race at its INSERT
C3_Witness ==
    /\ AllRaceDone
    /\ \E r \in ReqIds : reqs[r].via = "created" /\ reqs[r].status = 200
    /\ \E r \in ReqIds : reqs[r].via # "created" /\ reqs[r].attempt = 0
                         /\ reqs[r].status = 503

\* C4: a request that loses the race for creating the user still ends
\* authenticated, as the same User the winner created.
C4_LoserIsAuthenticated ==
    \A r \in ReqIds :
        reqs[r].pc = "done"
            => (reqs[r].status = 200 /\ \E u \in SubjectUsers : reqs[r].user = u.id)

\* ---- folder tree claims
SameScope(f, g) ==
    f.data_room_id = g.data_room_id /\ f.parent_folder_id = g.parent_folder_id
EqualIgnoringCase(a, b) == lower(a) = lower(b)

\* request r received its response, or was sent back to the retry loop, in this step
Stepped(r) == freqs'[r] # freqs[r]
Answered(r) == Stepped(r) /\ freqs'[r].pc = "idle"
Committing(r, op) == freqs[r].pc = "commit" /\ freqs[r].op = op

\* the folders in the scope (dr, parent) whose name equals name ignoring case
Namesakes(fs, dr, parent, name) ==
    {f \in fs : f.data_room_id = dr /\ f.parent_folder_id = parent
                /\ EqualIgnoringCase(f.name, name)}

SiblingNamesUnique ==
    \A f, g \in folders :
        (f.id # g.id /\ SameScope(f, g)) => ~EqualIgnoringCase(f.name, g.name)

CreateInFreeScopeSucceeds ==
    \A r \in FReqIds :
        LET q == freqs[r] IN
        (/\ Committing(r, "create_folder") /\ Stepped(r)
         /\ q.parent \in FolderIds(folders) \cup {None}
         /\ Namesakes(folders, q.dr, q.parent, q.name) = {})
        => /\ freqs'[r].status = 201
           /\ \E f \in folders' \ folders :
                 f.name = q.name /\ f.parent_folder_id = q.parent /\ f.data_room_id = q.dr

\* C5: whatever create, rename, move and delete requests have run, in whatever
\* interleaving, no two folders of one data room with the same parent (null
\* included) have names equal ignoring case; and a create whose scope holds no
\* such name succeeds, even when another parent holds the same name.
C5_SiblingNamesUniqueIgnoringCase ==
    []SiblingNamesUnique /\ [][CreateInFreeScopeSucceeds]_vars

\* the same name, letter for letter, under two different parents of one data room
C5_Witness ==
    /\ \E f, g \in folders :
          /\ f.id # g.id /\ f.name = g.name /\ f.data_room_id = g.data_room_id
          /\ f.parent_folder_id # g.parent_folder_id
    /\ \E r \in FReqIds : freqs[r].op = "create_folder" /\ freqs[r].status = 201

ConflictMessage == "A folder with this name already exists in this location"

\* C6: a create-folder request whose scope already holds the name (in any
\* letter case) is answered 409 with exactly "A folder with this name already
\* exists in this location", and adds no folder row.
C6_DuplicateCreateIs409 ==
    [][\A r \in FReqIds :
          LET q == freqs[r] IN
          (/\ Committing(r, "create_folder") /\ Answered(r)
           /\ ownership_exists(data_rooms, q.dr, q.user)
           /\ Namesakes(folders, q.dr, q.parent, q.name) # {})
          => /\ freqs'[r].status = 409
             /\ freqs'[r].message = ConflictMessage
             /\ folders' = folders]_vars

\* the create-folder request in slot w was answered 201 and its row is still stored
Winner(w) ==
    /\ freqs[w].pc = "idle" /\ freqs[w].op = "create_folder" /\ freqs[w].status = 201
    /\ freqs[w].id \in FolderIds(folders)

\* C7: of two create-folder requests for one (data room, parent, name ignoring
\* case) that both passed the checks made before the insert, one commits its
\* row and the other ends in 409, never in a 5xx; one row is stored.
C7_RaceLoserIs409 ==
    [][\A r, w \in FReqIds :
          LET q == freqs[r] IN
          (/\ r # w /\ Committing(r, "create_folder") /\ Answered(r) /\ Winner(w)
           /\ \E f \in Namesakes(folders, q.dr, q.parent, q.name) : f.id = freqs[w].id)
          => /\ freqs'[r].status = 409
             /\ freqs'[r].status < 500
             /\ Cardinality(Namesakes(folders', q.dr, q.parent, q.name)) = 1]_vars

\* ids reachable from the ids in S by following child references, S included
RECURSIVE Closure(_, _)
Closure(fs, S) ==
    LET more == S \cup {f.id : f \in {g \in fs : g.parent_folder_id \in S}} IN
    IF more = S THEN S ELSE Closure(fs, more)

\* folder id and every descendant of it
Subtree(fs, id) == Closure(fs, {id})

\* C8: a move of folder A under A itself or under a descendant of A is
\* rejected, and leaves every folder and file row as it was.
C8_MoveIntoOwnSubtreeRejected ==
    [][\A r \in FReqIds :
          LET q == freqs[r] IN
          (/\ Committing(r, "move_folder") /\ Answered(r)
           /\ q.id \in FolderIds(folders)
           /\ q.parent \in Subtree(folders, q.id))
          => /\ freqs'[r].status >= 400
             /\ folders' = folders /\ files' = files]_vars

\* the ancestors of a folder: the ids met by following parent references
RECURSIVE Ancestors(_, _, _)
Ancestors(fs, ids, seen) ==
    LET up == {f.parent_folder_id : f \in {g \in fs : g.id \in ids}} \ {None} IN
    IF up \subseteq seen THEN seen ELSE Ancestors(fs, up, seen \cup up)

\* C9: in every reachable store state the parent relation is acyclic: no
\* folder is among its own ancestors, and every parent reference names a
\* stored folder, so each chain ends at a folder with a null parent.
C9_ParentRelationAcyclic ==
    \A f \in folders :
        /\ f.id \notin Ancestors(folders, {f.id}, {})
        /\ f.parent_folder_id \in FolderIds(folders) \cup {None}

FilesUnder(fl, ids) == {f \in fl : f.folder_id \in ids}
NewBlobCalls == SubSeq(blob_calls', Len(blob_calls) + 1, Len(blob_calls'))

C11_DeleteIsAllOrNothing ==
    [][\A r \in FReqIds :
          LET q == freqs[r]
              gone == Subtree(folders, q.id)
              lost == FilesUnder(files, gone)
          IN
          (Committing(r, "delete_folder") /\ Stepped(r))
          => \/ /\ freqs'[r].status = 200
                /\ folders' = {f \in folders : f.id \notin gone}
                /\ files' = files \ lost
             \/ /\ freqs'[r].status # 200
                /\ folders' = folders /\ files' = files]_vars

\* a delete failed after the recursion had already marked a folder deleted
\* (f3, a child of f1, inside the cycle f1 <-> f2): every row is still stored
C11_Witness ==
    /\ \E r \in FReqIds : freqs[r].op = "delete_folder" /\ freqs[r].status = 500
    /\ FolderIds(folders) = {"f1", "f2", "f3"}
    /\ \E f \in folders : f.id = "f1" /\ f.parent_folder_id = "f2"
    /\ \E f \in folders : f.id = "f3" /\ f.parent_folder_id \in {"f1", "f2"}
    /\ Cardinality(files) = 2

\* C12: a file's blob delete is issued only after the transaction removing its
\* File row has committed, in delete_file and in delete_folder: whatever
\* fails, no stored File row has had its blob delete issued.
C12_BlobDeleteOnlyAfterCommit ==
    \A i \in 1 .. Len(blob_calls) :
        ~\E f \in files : f.id = blob_calls[i].file /\ f.file_path = blob_calls[i].path

C14_BreadcrumbWalkTerminates ==
    \A r \in FReqIds : (freqs[r].pc = "walk") ~> (freqs[r].pc = "idle")

\* ---- identity cache claims
EntriesOf(cache, uid) == {e \in cache : e.uid = uid}
\* the instant of the put that wrote the entry
PutTime(e) == e.expiry - 300

\* the step is the cache read of request r / the cache write of request r
CacheReadBy(r) == reqs[r].pc = "resolve" /\ reqs'[r] # reqs[r]
CacheWriteBy(r) == reqs[r].pc = "finish" /\ reqs'[r] # reqs[r]
TrustedRow(r, id) == \E u \in users : u.id = id /\ u.supabase_uid = reqs[r].uid

\* C15: a read of subject s returns the id of the latest put for s only while
\* the time is strictly before that put's time + 300 s; at or after that
\* instant it returns nothing and removes the entry; a put replaces the entry
\* of s and starts a fresh 300 s.
C15_CacheEntryLivesForTTL ==
    [][\A r \in ReqIds :
          LET E == EntriesOf(_cache, reqs[r].uid) IN
          /\ CacheReadBy(r) =>
                /\ Cardinality(E) <= 1
                /\ \A e \in E :
                      IF now < PutTime(e) + 300
                      THEN /\ _cache' = _cache
                           /\ TrustedRow(r, e.user_id)
                                 => reqs'[r].via = "cache" /\ reqs'[r].user = e.user_id
                      ELSE /\ _cache' = _cache \ {e}
                           /\ reqs'[r].via # "cache"
                /\ E = {} => _cache' = _cache /\ reqs'[r].via # "cache"
          /\ CacheWriteBy(r) =>
                /\ EntriesOf(_cache', reqs[r].uid)
                      = {[uid |-> reqs[r].uid, user_id |-> reqs[r].user, expiry |-> now + 300]}
                /\ \A e \in _cache : e.uid # reqs[r].uid => e \in _cache']_vars

\* exactly 300 s after the put of an earlier request, the read of a second
\* request for the same subject found nothing and the entry is gone
C15_Witness ==
    /\ now = 300 /\ served = 2
    /\ reqs[1].pc = "query_sub"
    /\ EntriesOf(_cache, reqs[1].uid) = {}
    /\ \E u \in users : u.supabase_uid = reqs[1].uid

\* C16: on a cache hit the cached id is used only if a User row with that id
\* exists and its stored subject equals the token's subject; the request is
\* then authenticated as that user with no store write and no cache write;
\* otherwise the cached id is not used and the lookup by subject follows.
C16_CacheHitIsVerified ==
    [][\A r \in ReqIds :
          /\ CacheReadBy(r) =>
                \A e \in EntriesOf(_cache, reqs[r].uid) :
                    now < e.expiry =>
                        IF TrustedRow(r, e.user_id)
                        THEN /\ reqs'[r].pc = "handler"
                             /\ reqs'[r].user = e.user_id
                             /\ reqs'[r].via = "cache"
                             /\ _cache' = _cache
                             /\ UNCHANGED storeVars
                        ELSE /\ reqs'[r].pc = "query_sub"
                             /\ reqs'[r].user = None
          /\ (reqs[r].via = "cache" /\ reqs[r].pc = "handler")
                => /\ _cache' = _cache
                   /\ UNCHANGED storeVars
                   /\ reqs'[r] # reqs[r] => reqs'[r].status = 200]_vars

\* the cache holds a live entry for the token's subject, but the row it names
\* carries another subject: the request went on to the lookup by subject
C16_Witness ==
    \E e \in EntriesOf(_cache, reqs[1].uid) :
        /\ now < e.expiry
        /\ reqs[1].pc = "query_sub"
        /\ \E u \in users : u.id = e.user_id /\ u.supabase_uid # reqs[1].uid

\* ---- retry loop claims
\* in this step the retry loop of request r caught an exception of this kind
\* raised by the user resolution
CaughtBy(r, kind) ==
    /\ reqs[r].pc \in {"query_sub", "query_email", "create", "flushed"}
    /\ reqs'[r].pc \in {"resolve", "done"}
    /\ reqs'[r].caught = kind
TransientKinds == {"OperationalError"}

\* C17: user resolution is attempted at most 3 times per request; another
\* attempt is made only after a transient (connection/timeout-class) store
\* error, and a third consecutive transient failure ends the request with 503.
C17_RetryOnlyAfterTransientError ==
    /\ [](\A r \in ReqIds : reqs[r].attempt < 3)
    /\ [][\A r \in ReqIds :
             /\ (reqs'[r].attempt # reqs[r].attempt /\ reqs'[r].pc # "start")
                   => /\ reqs'[r].attempt = reqs[r].attempt + 1
                      /\ \E kind \in TransientKinds : CaughtBy(r, kind)
             /\ (reqs[r].attempt = 2 /\ \E kind \in TransientKinds : CaughtBy(r, kind))
                   => reqs'[r].pc = "done" /\ reqs'[r].status = 503]_vars

\* C18: a non-transient store error during user resolution is never retried:
\* the request ends with 503, no User or DataRoom row of the failed attempt is
\* committed and nothing is put into the identity cache.
C18_NonTransientErrorIsNotRetried ==
    [][\A r \in ReqIds :
          CaughtBy(r, "IntegrityError")
          => /\ reqs'[r].pc = "done"
             /\ reqs'[r].status = 503
             /\ reqs'[r].attempt = reqs[r].attempt
             /\ users' = users /\ data_rooms' = data_rooms
             /\ _cache' = _cache]_vars

\* the local verification of request q's token raises an exception that is
\* neither the signature mismatch (ValueError) nor a rejection (AppError)
UnexpectedInternalError(q) ==
    /\ q.header \in {"bearer", "basic"}
    /\ decode_and_check(q.tok, now, jwt_leeway, NODE_ENV).kind
          \notin {"decoded", "ValueError", "AppError"}

\* C19: a request whose local token verification raises an unexpected
\* internal error goes on to the remote verification call, as it does after
\* a signature mismatch; it is not failed by the local verification.
C19_InternalErrorFallsBackToRemote ==
    [][\A r \in ReqIds :
          (reqs[r].pc = "start" /\ reqs'[r].pc # "start"
              /\ UnexpectedInternalError(reqs[r]))
          => reqs'[r].pc = "fallback"]_vars

\* C20: a request without an Authorization header ends with 401 "Access
\* token required", a request whose header is not "Bearer <token>" (another
\* scheme, or no token part) ends with 401 "Invalid authorization header
\* format", and in both cases nothing is verified, no remote call is made
\* and neither the cache nor the store is touched.
C20_HeaderRejectedBeforeVerification ==
    [][\A r \in ReqIds :
          (reqs[r].pc = "start" /\ reqs'[r].pc # "start" /\ reqs[r].header # "bearer")
          => /\ reqs'[r].pc = "done"
             /\ reqs'[r].status = 401
             /\ reqs'[r].message = IF reqs[r].header = "absent"
                                   THEN "Access token required"
                                   ELSE "Invalid authorization header format"
             /\ ~reqs'[r].local /\ reqs'[r].remote = 0
             /\ remote_calls' = remote_calls
             /\ _cache' = _cache
             /\ users' = users /\ data_rooms' = data_rooms]_vars

\* C21: every folder with a parent has a parent row of its own data room,
\* and a create or move naming a parent that is not in the folder's data room
\* is rejected without changing a row.
ParentInSameRoom(fs) ==
    \A f \in fs : f.parent_folder_id # None
        => \E p \in fs : p.id = f.parent_folder_id /\ p.data_room_id = f.data_room_id

C21_ParentInSameDataRoom ==
    /\ [](ParentInSameRoom(folders))
    /\ [][\A r \in FReqIds :
             (/\ Stepped(r)
              /\ Committing(r, "create_folder") \/ Committing(r, "move_folder")
              /\ freqs[r].parent # None
              /\ LET room == IF freqs[r].op = "create_folder" THEN {freqs[r].dr}
                              ELSE {f.data_room_id : f \in {g \in folders : g.id = freqs[r].id}}
                 IN  ~\E p \in folders : p.id = freqs[r].parent /\ p.data_room_id \in room)
             => folders' = folders /\ freqs'[r].status >= 400]_vars

\* C22: no step removes a DataRoom row, and a user whose request has been
\* authenticated and answered owns at least one DataRoom.
C22_EveryUserKeepsADataRoom ==
    /\ [](\A r \in ReqIds :
            (reqs[r].pc = "done" /\ reqs[r].status = 200 /\ reqs[r].user # None)
            => RoomsOf(reqs[r].user) # {})
    /\ [][\A d \in data_rooms : \E e \in data_rooms' : e.id = d.id]_vars

\* C23: under every interleaving of the data room views, every user owns at
\* most one DataRoom row.
C23_AtMostOneDataRoomPerUser ==
    \A u \in users : Cardinality(RoomsOf(u.id)) <= 1

\* the display name the token of a first request determines
ExpectedDisplayName(tok) ==
    IF tok.full_name \in {"Ann Lee", "Ann Lee (al)"} THEN "Ann Lee"
    ELSE IF tok.email = "user@x.com" THEN "user"
    ELSE "timeout"

\* C24: a User the pipeline creates is committed together with its first
\* DataRoom or not at all: every committed User has a DataRoom, a flushed but
\* uncommitted User has left nothing in the store, and once the creating
\* request has committed, a DataRoom named 'Data Room (<display name>)'
\* exists for its User, the display name being the metadata full name or
\* else the e-mail local part, without a trailing parenthetical suffix.
C24_UserAndDataRoomCommittedTogether ==
    /\ \A u \in users : RoomsOf(u.id) # {}
    /\ \A d \in data_rooms : \E u \in users : u.id = d.user_id
    /\ \A r \in ReqIds :
          /\ \A row \in reqs[r].pending : row \notin users /\ RoomsOf(row.id) = {}
          /\ (reqs[r].via = "created" /\ reqs[r].pc \in {"finish", "handler", "done"})
                => \E d \in RoomsOf(reqs[r].user) :
                      d.name = "Data Room (" \o ExpectedDisplayName(reqs[r].tok) \o ")"

\* a first request with a nickname in its full name has created its User and
\* been answered, while a concurrent one lost at its INSERT
C24_Witness ==
    \E r, o \in ReqIds :
        /\ reqs[r].pc = "done" /\ reqs[r].status = 200 /\ reqs[r].via = "created"
        /\ reqs[r].tok.full_name = "Ann Lee (al)"
        /\ reqs[o].via # "created" /\ reqs[o].caught = "IntegrityError"

ValidIssuers == {EXPECTED_ISSUER, EXPECTED_ISSUER \o "/auth/v1"}

\* C25: a token the local verification accepts carries one of the two
\* expected issuer values, and a request with a validly signed token of any
\* other issuer value ends with 401.
C25_AcceptedTokenHasExpectedIssuer ==
    \A r \in ReqIds :
        LET q == reqs[r] IN
        /\ (Started(q) /\ q.local) => q.tok.iss \in ValidIssuers
        /\ (Started(q) /\ HasToken(q) /\ ValidlySigned(q.tok)
               /\ q.tok.iss \notin ValidIssuers)
              => (q.pc = "done" /\ q.status = 401)

\* a request with a validly signed token carrying integer iat and exp
TimedToken(q) ==
    /\ Started(q) /\ HasToken(q) /\ ValidlySigned(q.tok)
    /\ q.tok.has_iat /\ ~q.tok.iat_text
RejectedWith(q, message) == q.pc = "done" /\ q.status = 401 /\ q.message = message

\* C26: for a validly signed token verified at time `at`: it is rejected as
\* expired exactly when exp + 60 < at, for its issue time exactly when
\* iat > at + 60, and as too old exactly when at - iat > 86400; an iat at most
\* 60 s in the future passes the issued-at check.
C26_TimeChecksUseLeeway ==
    \A r \in ReqIds :
        LET q == reqs[r] IN
        TimedToken(q) =>
            /\ RejectedWith(q, "Token expired") <=> q.tok.exp + 60 < q.at
            /\ RejectedWith(q, "Invalid token issue time") <=> q.tok.iat > q.at + 60
            /\ RejectedWith(q, "Token too old") <=> q.at - q.tok.iat > 86400

FileNamesakes(fl, dr, folder, name) ==
    {f \in fl : f.data_room_id = dr /\ f.folder_id = folder
                /\ EqualIgnoringCase(f.name, name)}

FileConflictMessage == "A file with this name already exists in this location"

\* C27: no two File rows of one DataRoom and one folder (none counting as a
\* folder) have names equal ignoring case, and an upload or rename whose name
\* is taken in its scope ends in 409 "A file with this name already exists in
\* this location" and leaves the file rows unchanged.
C27_FileNamesUniqueIgnoringCase ==
    /\ [](\A f, g \in files :
            (f.id # g.id /\ f.data_room_id = g.data_room_id /\ f.folder_id = g.folder_id)
            => ~EqualIgnoringCase(f.name, g.name))
    /\ [][\A r \in FReqIds :
             LET q == freqs[r] IN
             /\ (/\ Committing(r, "upload_complete") /\ Answered(r)
                 /\ FileNamesakes(files, q.dr, q.parent, q.name) # {})
                => /\ freqs'[r].status = 409
                   /\ freqs'[r].message = FileConflictMessage
                   /\ files' = files
             /\ (/\ Committing(r, "update_file") /\ Answered(r)
                 /\ \E old \in files :
                       /\ old.id = q.id
                       /\ FileNamesakes(files, old.data_room_id, old.folder_id, q.name)
                             \ {old} # {})
                => /\ freqs'[r].status = 409
                   /\ freqs'[r].message = FileConflictMessage
                   /\ files' = files]_vars

LockHolderWorksOn(lock, ops) ==
    lock # 0 => /\ threads[lock].op \in ops
                /\ threads[lock].pc \in {"locked", "expired", "filtered", "release"}

\* C28: under every interleaving of the threads, no attempt whose recording
\* has returned is missing from the limiter while it is inside the window, a
\* cache read returns no id but the one of the last put that has returned for
\* its subject, and a thread holds neither lock during a store query or a
\* remote verification call.
C28_CacheAndLimiterOperationsAreAtomic ==
    /\ \A c \in Clients :
          Len(InWindow(Attempts(c), now, RATE_LIMIT_WINDOW))
             >= Len(InWindow(history.records[c], now, RATE_LIMIT_WINDOW))
    /\ \A t \in ThreadIds :
          /\ (threads[t].op = "get_user_id_from_cache" /\ threads[t].pc = "release"
                 /\ threads[t].result # None)
                => threads[t].result = history.puts[threads[t].key]
          /\ threads[t].pc = "in_call" => (_cache_lock # t /\ _lock # t)
    /\ LockHolderWorksOn(_cache_lock, CacheOps)
    /\ LockHolderWorksOn(_lock, LimiterOps)

\* a thread waits for the limiter's lock to record an attempt while another,
\* inside check_rate_limit, has built the pruned list and not yet stored it,
\* and a cache read has returned the id of an earlier put
C28_Witness ==
    \E t, o \in ThreadIds :
        /\ threads[t].pc = "filtered" /\ _lock = t
        /\ threads[o].pc = "acquire" /\ threads[o].op = "record_failed_attempt"
        /\ \E c \in Clients : Len(history.records[c]) > 0
        /\ \E uid \in Subjects : history.puts[uid] # None

\* C29: the User attached to a request carries the subject the token
\* asserts, and every cache entry (subject -> user id) names a User whose
\* stored subject is that subject.
C29_AttachedUserHasTokenSubject ==
    /\ \A r \in ReqIds :
          (reqs[r].user # None /\ reqs[r].pc \in {"finish", "handler", "done"})
          => \E u \in users : u.id = reqs[r].user /\ u.supabase_uid = reqs[r].uid
    /\ \A e \in _cache :
          \A u \in users : u.id = e.user_id => u.supabase_uid = e.uid

NotFoundMessages ==
    {"Data room not found", "Folder not found", "File not found",
     "New parent folder not found"}

\* C30: an error the view raises after authentication reaches the global
\* error handler unchanged: a request answered by the view's first queries
\* (their only errors are the 404s) is answered 404 with the view's message,
\* and a create-folder whose INSERT violates a constraint is answered as the
\* error handler answers that IntegrityError.
C30_HandlerErrorPassesThrough ==
    [][\A r \in FReqIds :
          LET q == freqs[r] IN
          /\ (q.pc = "idle" /\ Answered(r))
                => /\ freqs'[r].status = 404
                   /\ freqs'[r].message \in NotFoundMessages
          /\ (/\ Committing(r, "create_folder") /\ Stepped(r)
              /\ FolderViolation(folders, data_rooms,
                     FolderRow(FolderId(next_id.folder), q.name, q.dr, q.parent, q.user)) # {})
                => LET bad == FolderViolation(folders, data_rooms,
                                 FolderRow(FolderId(next_id.folder), q.name, q.dr,
                                           q.parent, q.user))
                       resp == error_handler(IntegrityError(bad, q.name), NODE_ENV)
                   IN  /\ freqs'[r].pc = "idle"
                       /\ freqs'[r].status = resp.status
                       /\ freqs'[r].message = resp.message]_vars

\* in this step the wrapped view of request r is entered: for the first time
\* (the request arrives) or again by the retry loop
ViewEntered(r) == Stepped(r) /\ freqs[r].pc \in {"idle", "retry"}

\* C31: the wrapped view is entered at most once per request: the retry loop
\* never enters the view of a request whose view has already run.
C31_HandlerRunsAtMostOnce ==
    [][\A r \in FReqIds : ViewEntered(r) => freqs[r].pc = "idle"]_vars

OwnerOf(dr) == {d.user_id : d \in {x \in data_rooms : x.id = dr}}
Changed(before, after) == (before \ after) \cup (after \ before)

\* C32: a step of a request authenticated as user U adds, changes or removes
\* only Folder and File rows of data rooms U owns, and a row it writes is not
\* placed under a folder of a data room of another user.
C32_RequestsTouchOwnRowsOnly ==
    [][\A r \in FReqIds :
          (Stepped(r) /\ freqs[r].pc = "commit") =>
             LET U == freqs[r].user IN
             /\ \A f \in Changed(folders, folders') \cup Changed(files, files') :
                    OwnerOf(f.data_room_id) = {U}
             /\ \A f \in folders' \ folders : \A p \in folders' :
                    p.id = f.parent_folder_id => OwnerOf(p.data_room_id) = {U}
             /\ \A f \in files' \ files : \A p \in folders' :
                    p.id = f.folder_id => OwnerOf(p.data_room_id) = {U}]_vars

\* the user whose uploads are stored under the path's folder uploads/<user id>
Uploader(path) ==
    {u \in FUsers : \E n \in 1 .. (MaxFiles + 2) : path = BlobPath(u, n)}

\* C33: the storage path of every File row names a blob its own creator
\* uploaded, and delete_file called by user U asks the blob store to delete
\* only blobs U uploaded.
C33_FilePathIsOwnUpload ==
    /\ [](\A f \in files : f.file_path # None => Uploader(f.file_path) = {f.user_id})
    /\ [][\A r \in FReqIds :
             (Stepped(r) /\ Committing(r, "delete_file"))
             => \A c \in Range(NewBlobCalls) : Uploader(c.path) = {freqs[r].user}]_vars

\* C34: in every store state that create_folder and move_folder requests can
\* produce, the recursion of a delete_folder request over the child folders
\* is finite: it never descends further than there are folders.
C34_DeleteFolderTerminates ==
    [][\A r \in FReqIds :
          (Stepped(r) /\ Committing(r, "delete_folder"))
          => ~delete_folder_recursive(folders, files, freqs[r].id,
                                      RecursionDepth(folders), NoDeletion).overflow]_vars

\* ------------------------------------------- rate_limiter, call by call
\* get_client_identifier: the first X-Forwarded-For element, else X-Real-IP,
\* else the peer address; the headers are whatever the client sent
Identifiers == {"10.0.0.1", "10.0.0.1:fallback"}

CLEANUP_KEYS == 1000
CLEANUP_AGE == 3600

\* the keys of clients that failed once, long ago
OtherClients == {"client-" \o ToString(i) : i \in 1 .. (CLEANUP_KEYS + 1)}
ManyOldKeys == [k \in OtherClients |-> <<0 - 4000>>]

\* defaultdict(list): _failed_attempts[key]
AttemptsIn(fa, key) == IF key \in DOMAIN fa THEN fa[key] ELSE <<>>

\* the body both checks share: the list under the key is replaced by its
\* attempts inside the window; not allowed when max or more remain
check_window(fa, key, t, window, max) ==
    LET attempts == InWindow(AttemptsIn(fa, key), t, window) IN
    [allowed |-> ~(Len(attempts) >= max), store |-> SetKey(fa, key, attempts)]

\* rate_limiter.py 38-61
check_rate_limit(fa, identifier, t) ==
    check_window(fa, identifier, t, RATE_LIMIT_WINDOW, MAX_FAILED_ATTEMPTS)

\* rate_limiter.py 84-104
check_fallback_rate_limit(fa, identifier, t) ==
    check_window(fa, FallbackKey(identifier), t, FALLBACK_WINDOW, MAX_FALLBACK_ATTEMPTS)

\* rate_limiter.py 76-81: every list keeps its attempts of the last hour and
\* the keys left without attempts are deleted
cleanup(fa, t) ==
    LET kept == [k \in DOMAIN fa |-> SelectSeq(fa[k], LAMBDA a : a > t - CLEANUP_AGE)]
    IN  [k \in {x \in DOMAIN kept : kept[x] # <<>>} |-> kept[k]]

\* rate_limiter.py 72
appended(fa, key, t) == SetKey(fa, key, Append(AttemptsIn(fa, key), t))

\* rate_limiter.py 64-81
record_failed_attempt(fa, identifier, t) ==
    LET after == appended(fa, identifier, t) IN
    IF Cardinality(DOMAIN after) > CLEANUP_KEYS THEN cleanup(after, t) ELSE after

\* rate_limiter.py 107-116
record_fallback_attempt(fa, identifier, t) == appended(fa, FallbackKey(identifier), t)

\* rate_limiter.py 119-129
reset_rate_limit(fa, identifier) == DelKeys(fa, {identifier, FallbackKey(identifier)})

\* SpecLimiter starts after one client has had this many attempts recorded
PriorAttempts == {1, MAX_FALLBACK_ATTEMPTS - 1, MAX_FAILED_ATTEMPTS - 1}

\* history in SpecLimiter: per identifier, the times of the attempts recorded
\* for it since its last reset
NoRecords ==
    [failed |-> [c \in Identifiers |-> <<>>], fallback |-> [c \in Identifiers |-> <<>>]]

Returned(op, identifier, allowed) ==
    [threads EXCEPT ![1] = [IdleThread EXCEPT !.op = op, !.key = identifier,
                                              !.now = now, !.allowed = allowed]]

limiterFrame ==
    <<NODE_ENV, jwt_leeway, storeVars, _cache, reqs, remote_calls, ticks, freqs,
      blob_calls, _cache_lock, _lock>>

CheckRateLimit(identifier) ==
    /\ LET res == check_rate_limit(_failed_attempts, identifier, now) IN
       /\ _failed_attempts' = res.store
       /\ threads' = Returned("check_rate_limit", identifier, res.allowed)
    /\ UNCHANGED <<limiterFrame, now, served, history>>

CheckFallbackRateLimit(identifier) ==
    /\ LET res == check_fallback_rate_limit(_failed_attempts, identifier, now) IN
       /\ _failed_attempts' = res.store
       /\ threads' = Returned("check_fallback_rate_limit", identifier, res.allowed)
    /\ UNCHANGED <<limiterFrame, now, served, history>>

RecordFailedAttempt(identifier) ==
    /\ served < MaxRecords
    /\ _failed_attempts' = record_failed_attempt(_failed_attempts, identifier, now)
    /\ threads' = Returned("record_failed_attempt", identifier, TRUE)
    /\ history' = [history EXCEPT !.failed[identifier] = Append(@, now)]
    /\ served' = served + 1
    /\ UNCHANGED <<limiterFrame, now>>

RecordFallbackAttempt(identifier) ==
    /\ served < MaxRecords
    /\ _failed_attempts' = record_fallback_attempt(_failed_attempts, identifier, now)
    /\ threads' = Returned("record_fallback_attempt", identifier, TRUE)
    /\ history' = [history EXCEPT !.fallback[identifier] = Append(@, now)]
    /\ served' = served + 1
    /\ UNCHANGED <<limiterFrame, now>>

ResetRateLimit(identifier) ==
    /\ _failed_attempts' = reset_rate_limit(_failed_attempts, identifier)
    /\ threads' = Returned("reset_rate_limit", identifier, TRUE)
    /\ history' = [history EXCEPT !.failed[identifier] = <<>>,
                                  !.fallback[identifier] = <<>>]
    /\ UNCHANGED <<limiterFrame, now, served>>

\* time passes between two calls
LimiterTick ==
    /\ ticks < MaxTicks
    /\ \E d \in {FALLBACK_WINDOW, RATE_LIMIT_WINDOW, CLEANUP_AGE} : now' = now + d
    /\ ticks' = ticks + 1
    /\ UNCHANGED <<NODE_ENV, jwt_leeway, storeVars, _cache, reqs, remote_calls, freqs,
                   blob_calls, _cache_lock, _lock, _failed_attempts, threads, served,
                   history>>

InitLimiter ==
    /\ now = 0 /\ ticks = 0 /\ served = 0
    /\ NODE_ENV = "production"
    /\ jwt_leeway = LEEWAY
    /\ EmptyTree
    /\ next_id = [user |-> 1, folder |-> 1, file |-> 1]
    /\ users = {} /\ data_rooms = {}
    /\ _cache = {}
    /\ remote_calls = [c \in Clients |-> <<>>]
    /\ blob_calls = <<>>
    /\ reqs = [r \in ReqIds |-> IdleReq]
    /\ freqs = [r \in FReqIds |-> IdleF]
    /\ threads = [t \in ThreadIds |-> IdleThread]
    /\ _cache_lock = 0 /\ _lock = 0
    /\ \E c \in Identifiers, n \in PriorAttempts, old \in BOOLEAN :
          LET prior == [i \in 1 .. n |-> 0] IN
          \/ /\ old => n = 1
             /\ history = [NoRecords EXCEPT !.failed[c] = prior]
             /\ _failed_attempts =
                   SetKey(IF old THEN ManyOldKeys ELSE [k \in {} |-> <<>>], c, prior)
          \/ /\ ~old
             /\ history = [NoRecords EXCEPT !.fallback[c] = prior]
             /\ _failed_attempts = SetKey([k \in {} |-> <<>>], FallbackKey(c), prior)

NextLimiter ==
    \/ LimiterTick
    \/ \E identifier \in Identifiers :
          \/ CheckRateLimit(identifier)
          \/ CheckFallbackRateLimit(identifier)
          \/ RecordFailedAttempt(identifier)
          \/ RecordFallbackAttempt(identifier)
          \/ ResetRateLimit(identifier)

SpecLimiter == InitLimiter /\ [][NextLimiter]_vars

\* a step of SpecLimiter that is a call of op (the clock stands still in it)
Called(op) == now' = now /\ threads'[1].op = op
CheckOps == {"check_rate_limit", "check_fallback_rate_limit"}
Recent(attempts, window) == Len(InWindow(attempts, now, window))

\* C35: check_rate_limit(c) refuses exactly when c has 10 or more recorded
\* failed attempts younger than 300 s, check_fallback_rate_limit(c) exactly
\* when c has 5 or more recorded fallback attempts younger than 60 s; a check
\* makes no list longer, after reset_rate_limit(c) both checks allow c, and
\* the clean-up inside record_failed_attempt changes the result of no check.
C35_ChecksCountRecordedAttempts ==
    [][LET c == threads'[1].key IN
       /\ Called("check_rate_limit")
             => (threads'[1].allowed
                   <=> Recent(history.failed[c], RATE_LIMIT_WINDOW) < MAX_FAILED_ATTEMPTS)
       /\ Called("check_fallback_rate_limit")
             => (threads'[1].allowed
                   <=> Recent(history.fallback[c], FALLBACK_WINDOW) < MAX_FALLBACK_ATTEMPTS)
       /\ (now' = now /\ threads'[1].op \in CheckOps)
             => \A k \in DOMAIN _failed_attempts' :
                   Len(_failed_attempts'[k]) <= Len(AttemptsIn(_failed_attempts, k))
       /\ Called("reset_rate_limit")
             => /\ check_rate_limit(_failed_attempts', c, now).allowed
                /\ check_fallback_rate_limit(_failed_attempts', c, now).allowed
       /\ Called("record_failed_attempt")
             => \A b \in Identifiers :
                  LET plain == appended(_failed_attempts, c, now) IN
                  /\ check_rate_limit(_failed_attempts', b, now).allowed
                        = check_rate_limit(plain, b, now).allowed
                  /\ check_fallback_rate_limit(_failed_attempts', b, now).allowed
                        = check_fallback_rate_limit(plain, b, now).allowed]_vars

\* C36: a call for identifier a changes the result of no check for another
\* identifier b, recording a failed attempt changes the result of no fallback
\* check and recording a fallback attempt that of no failed-attempt check.
C36_CountersAreIsolated ==
    [][now' = now =>
       \A b \in Identifiers :
          LET SameFailed == check_rate_limit(_failed_attempts', b, now).allowed
                              = check_rate_limit(_failed_attempts, b, now).allowed
              SameFallback == check_fallback_rate_limit(_failed_attempts', b, now).allowed
                                = check_fallback_rate_limit(_failed_attempts, b, now).allowed
          IN  /\ b # threads'[1].key => SameFailed /\ SameFallback
              /\ threads'[1].op = "record_failed_attempt" => SameFallback
              /\ threads'[1].op = "record_fallback_attempt" => SameFailed]_vars

\* C37: the verifier reports a signature mismatch (the ValueError that starts
\* the fallback) exactly when the token's signature validates under neither
\* secret, and a token signed with the secondary (anon) secret gets the
\* outcome the same token signed with the primary secret would get.
C37_SecondarySecretSameChecks ==
    \A r \in ReqIds :
        LET q == reqs[r] IN
        (Started(q) /\ HasToken(q) /\ q.tok.wf) =>
            /\ q.verify.kind = "ValueError" <=> q.tok.sig \notin {"service", "anon"}
            /\ q.tok.sig = "anon" =>
                  q.verify = LocalOutcome([q EXCEPT !.tok.sig = "service"], q.at,
                                          jwt_leeway, NODE_ENV)

\* folders are created while breadcrumbs are read: no parent reference of an
\* existing row changes, so the tree stays acyclic
NextTree ==
    \E r \in FReqIds :
        \/ FBeginOf(r, {"create_folder"})
        \/ FRetry(r)
        \/ CommitCreate(r)
        \/ TreeBegin(r)
        \/ WalkStep(r)

SpecTree == InitFolders /\ [][NextTree]_vars

ParentOf(id) == {f.parent_folder_id : f \in {x \in folders : x.id = id}}

\* C38: the breadcrumb get_folder_tree returns for folder F of an acyclic
\* tree starts at a folder without parent, ends at F, lists each folder
\* directly before its child and lists no folder twice.
C38_BreadcrumbIsRootToLeafPath ==
    \A r \in FReqIds :
        LET q == freqs[r]
            b == q.breadcrumb
        IN  (q.pc = "idle" /\ q.op = "get_folder_tree" /\ q.status = 200) =>
               /\ Len(b) >= 1
               /\ ParentOf(b[1]) = {None}
               /\ b[Len(b)] = q.id
               /\ \A i \in 1 .. (Len(b) - 1) : ParentOf(b[i + 1]) = {b[i]}
               /\ \A i, j \in 1 .. Len(b) : i # j => b[i] # b[j]

C38_Witness ==
    \E r \in FReqIds :
        /\ freqs[r].pc = "idle" /\ freqs[r].op = "get_folder_tree"
        /\ freqs[r].status = 200
        /\ Len(freqs[r].breadcrumb) = 3

\* ------------------------------------------------------- conflict_checker
\* conflict_checker.py 10-55: Folder.name == name / File.name == name within
\* (data_room_id, folder_id), other than the excluded ids
check_name_conflicts(fs, fl, name, data_room_id, folder_id, exclude_file_id, exclude_folder_id) ==
    [folderConflict |->
        \E f \in fs : /\ f.name = name
                      /\ f.parent_folder_id = folder_id
                      /\ f.data_room_id = data_room_id
                      /\ exclude_folder_id # None => f.id # exclude_folder_id,
     fileConflict |->
        \E f \in fl : /\ f.name = name
                      /\ f.folder_id = folder_id
                      /\ f.data_room_id = data_room_id
                      /\ exclude_file_id # None => f.id # exclude_file_id]

\* the response of import_file, with the name and place it was asked for
ImportResponse(q, resp) ==
    [resp EXCEPT !.name = q.name, !.dr = q.dr, !.parent = q.parent]

\* google_drive_routes.py 150-207, import_file: the pre-flight check, the
\* upload of the downloaded bytes to uploads/<user id>, INSERT and COMMIT;
\* `except Exception` turns every failure, the 409 of the check included,
\* into AppError 500
ImportFile(r) ==
    /\ freqs[r].pc = "idle"
    /\ served < MaxFolderRequests
    /\ next_id.file <= MaxFiles + 1
    /\ \E u \in FUsers, n \in UploadNames, p \in EverFolderIds \cup {None} :
          LET q == [IdleF EXCEPT !.op = "import_file", !.user = u, !.name = n,
                                 !.parent = p, !.dr = "d1"]
              conflicts == check_name_conflicts(folders, files, n, "d1", p, None, None)
              row == FileRow(FileId(next_id.file), n, "d1", p, u,
                             BlobPath(u, next_id.file))
              bad == FileViolation(files, folders, data_rooms, row)
              failed == create_error("Failed to import file from Google Drive", 500)
          IN  IF conflicts.folderConflict \/ conflicts.fileConflict \/ bad # {}
              THEN /\ freqs' = [freqs EXCEPT ![r] = ImportResponse(q, Raised(q, failed))]
                   /\ UNCHANGED <<files, next_id>>
              ELSE /\ files' = files \cup {row}
                   /\ next_id' = [next_id EXCEPT !.file = @ + 1]
                   /\ freqs' = [freqs EXCEPT ![r] =
                                  ImportResponse(q, Completed(q, 201, "success"))]
    /\ served' = served + 1
    /\ UNCHANGED <<lockVars, now, NODE_ENV, jwt_leeway, users, data_rooms, folders, _cache,
                   _failed_attempts, reqs, remote_calls, ticks, blob_calls>>

\* files are uploaded, imported, renamed and deleted
NextImport ==
    \E r \in FReqIds :
        \/ FilesBegin(r)
        \/ FRetry(r)
        \/ CommitUpload(r)
        \/ CommitRenameFile(r)
        \/ CommitDeleteFile(r)
        \/ ImportFile(r)

SpecImport == InitFolders /\ [][NextImport]_vars

\* C39: for the name and place of an import and every choice of excluded
\* ids, check_name_conflicts reports a folder (file) conflict exactly when a
\* folder (file) of that DataRoom and parent, other than the excluded one,
\* has the name ignoring case; an import whose check found no conflict and
\* whose DataRoom and folder exist inserts its row.
C39_PreflightAgreesWithUniqueKey ==
    [][\A r \in FReqIds :
          (Stepped(r) /\ freqs'[r].op = "import_file") =>
             LET q == freqs'[r]
                 clear == check_name_conflicts(folders, files, q.name, q.dr, q.parent,
                                               None, None)
             IN  /\ \A xf \in {None} \cup {f.id : f \in files},
                       xd \in {None} \cup FolderIds(folders) :
                       LET c == check_name_conflicts(folders, files, q.name, q.dr,
                                                     q.parent, xf, xd)
                       IN  /\ c.folderConflict
                                <=> \E f \in Namesakes(folders, q.dr, q.parent, q.name) :
                                       f.id # xd
                           /\ c.fileConflict
                                <=> \E f \in FileNamesakes(files, q.dr, q.parent, q.name) :
                                       f.id # xf
                 /\ (/\ ~clear.folderConflict /\ ~clear.fileConflict
                     /\ q.parent \in {None} \cup FolderIds(folders))
                       => files' # files]_vars

\* ------------------------------------------------------------------ cache
\* A key or pattern is the sequence of the pieces it is joined from.
EntityTypes == {"folder"}
EntityIds == {"f1", "list"}
CacheRooms == {"d1", "d2"}
CACHE_TTL == 300

\* cache.py 268-282
get_cache_key(entity_type, entity_id, dataRoomId) ==
    <<entity_type>>
    \o (IF entity_id # None THEN <<":", entity_id>> ELSE <<>>)
    \o (IF dataRoomId # None THEN <<":", "dataRoomId=", dataRoomId>> ELSE <<>>)

\* cache.py 285-304 (no user_id given)
get_cache_tags(entity_type, entity_id, data_room_id) ==
    {"type:" \o entity_type}
    \cup (IF entity_id # None THEN {entity_type \o ":" \o entity_id} ELSE {})
    \cup (IF data_room_id # None
          THEN {"dataroom:" \o data_room_id, "type:dataroom:" \o data_room_id}
          ELSE {})

\* cache.py 142-155: the prefixed key
_make_key(key) == <<"dataroom:">> \o key

\* cache.py 172-187 with 40-49: the entry replaces the one under the key; the
\* tags are added to the key's tag set, with the external backend only
\* (142-153; the tag set lives 24 h, longer than any behaviour here)
CacheManager_set(c, key, value, ttl, tags, t) ==
    LET full == _make_key(key) IN
    [c EXCEPT !.entries = {e \in @ : e.key # full}
                            \cup {[key |-> full, value |-> value, expiry |-> t + ttl]},
              !.tags = IF c._use_redis THEN @ \cup {[key |-> full, tag |-> g] : g \in tags}
                       ELSE @]

\* cache.py 29-38: the in-memory entry is expired when time.time() > expiry;
\* SETEX: the external one when its ttl has run out
expired(c, e, t) == IF c._use_redis THEN t >= e.expiry ELSE t > e.expiry

\* cache.py 157-170: the value under the key, None without a live entry
CacheManager_get(c, key, t) ==
    LET live == {e \in c.entries : e.key = _make_key(key) /\ ~expired(c, e, t)} IN
    IF live = {} THEN None ELSE (CHOOSE e \in live : TRUE).value

\* cache.py 189-200 with 53-61
CacheManager_delete(c, key) ==
    [c EXCEPT !.entries = {e \in @ : e.key # _make_key(key)}]

IsPrefix(p, k) == Len(p) <= Len(k) /\ SubSeq(k, 1, Len(p)) = p

\* SCAN ... MATCH pattern: * stands for any run of pieces
RECURSIVE GlobMatch(_, _)
GlobMatch(p, k) ==
    IF p = <<>> THEN k = <<>>
    ELSE IF Head(p) = "*"
    THEN GlobMatch(Tail(p), k) \/ (k # <<>> /\ GlobMatch(p, Tail(k)))
    ELSE k # <<>> /\ Head(k) = Head(p) /\ GlobMatch(Tail(p), Tail(k))

\* cache.py 63-81: a pattern ending in * matches the keys that start with
\* the text before that *, any other pattern the key equal to it
memory_match(pattern, key) ==
    IF pattern[Len(pattern)] = "*"
    THEN IsPrefix(SubSeq(pattern, 1, Len(pattern) - 1), key)
    ELSE pattern = key

\* cache.py 202-222
CacheManager_delete_pattern(c, pattern) ==
    LET full == _make_key(pattern)
        hit(key) == IF c._use_redis THEN GlobMatch(full, key) ELSE memory_match(full, key)
    IN  [c EXCEPT !.entries = {e \in @ : ~hit(e.key)}]

\* cache.py 224-248: nothing with the in-memory backend; with the external
\* one every key whose tag set holds one of the tags is deleted with its tag set
invalidate_by_tags(c, tags) ==
    IF ~c._use_redis THEN c
    ELSE LET hit == {g.key : g \in {x \in c.tags : x.tag \in tags}} IN
         [c EXCEPT !.entries = {e \in @ : e.key \notin hit},
                   !.tags = {g \in @ : g.key \notin hit}]

\* cache.py 344-354: the three list patterns, applied one after another
list_patterns(entity_type, data_room_id) ==
    << <<entity_type, ":", "list", ":", "*">>,
       <<entity_type, ":", "*", ":", "dataRoomId=", data_room_id, "*">>,
       <<entity_type, ":", "*", ":", "dataroom=", data_room_id, "*">> >>

\* cache.py 307-356 (no user_id, no related_entities)
invalidate_cache(c, entity_type, entity_id, data_room_id) ==
    LET c1 == IF entity_id # None
              THEN CacheManager_delete(c, get_cache_key(entity_type, entity_id, None))
              ELSE c
        c2 == invalidate_by_tags(c1, get_cache_tags(entity_type, entity_id, data_room_id))
        ps == list_patterns(entity_type, data_room_id)
    IN  IF data_room_id = None THEN c2
        ELSE CacheManager_delete_pattern(
                CacheManager_delete_pattern(
                   CacheManager_delete_pattern(c2, ps[1]), ps[2]), ps[3])

\* history in SpecCache: the tags each key was last stored with, and the last call
NoCalls ==
    [tagged |-> {}, last |-> [op |-> "", entity_type |-> "", entity_id |-> None,
                              data_room_id |-> None]]

cacheFrame ==
    <<now, NODE_ENV, jwt_leeway, storeVars, _failed_attempts, reqs, remote_calls, ticks,
      freqs, blob_calls, threads, _cache_lock, _lock>>

\* cache_set(key, value, ttl, tags), cache.py 418-420
CacheSet ==
    /\ served < MaxCacheSets
    /\ \E t \in EntityTypes, i \in EntityIds, d \in CacheRooms \cup {None},
          tagged \in BOOLEAN, td \in CacheRooms :
          LET key == get_cache_key(t, i, d)
              tags == IF tagged THEN get_cache_tags(t, i, td) ELSE {}
          IN  /\ _cache' = CacheManager_set(_cache, key, "v", CACHE_TTL, tags, now)
              /\ history' =
                    [tagged |-> {g \in history.tagged : g.key # _make_key(key)}
                                 \cup {[key |-> _make_key(key), tag |-> g] : g \in tags},
                     last |-> [NoCalls.last EXCEPT !.op = "cache_set"]]
    /\ served' = served + 1
    /\ UNCHANGED cacheFrame

\* cache_get(key), cache.py 413-415: the in-memory backend drops the entry it
\* finds expired (33-36)
CacheGet ==
    /\ \E t \in EntityTypes, i \in EntityIds, d \in CacheRooms \cup {None} :
          LET full == _make_key(get_cache_key(t, i, d)) IN
          _cache' = IF _cache._use_redis THEN _cache
                    ELSE [_cache EXCEPT !.entries =
                            {e \in @ : ~(e.key = full /\ expired(_cache, e, now))}]
    /\ history' = [history EXCEPT !.last = [NoCalls.last EXCEPT !.op = "cache_get"]]
    /\ UNCHANGED <<cacheFrame, served>>

\* invalidate_cache(entity_type, entity_id, data_room_id=...)
InvalidateCache ==
    /\ \E t \in EntityTypes, i \in EntityIds, d \in CacheRooms :
          /\ _cache' = invalidate_cache(_cache, t, i, d)
          /\ history' = [history EXCEPT !.last =
                           [op |-> "invalidate_cache", entity_type |-> t,
                            entity_id |-> i, data_room_id |-> d]]
    /\ UNCHANGED <<cacheFrame, served>>

InitCache ==
    /\ now = 0 /\ ticks = 0 /\ served = 0
    /\ NODE_ENV = "production"
    /\ jwt_leeway = LEEWAY
    /\ EmptyTree
    /\ next_id = [user |-> 1, folder |-> 1, file |-> 1]
    /\ users = {} /\ data_rooms = {}
    /\ _failed_attempts = [k \in {} |-> <<>>]
    /\ remote_calls = [c \in Clients |-> <<>>]
    /\ blob_calls = <<>>
    /\ reqs = [r \in ReqIds |-> IdleReq]
    /\ freqs = [r \in FReqIds |-> IdleF]
    /\ threads = [t \in ThreadIds |-> IdleThread]
    /\ _cache_lock = 0 /\ _lock = 0
    /\ \E redis \in BOOLEAN : _cache = [_use_redis |-> redis, entries |-> {}, tags |-> {}]
    /\ history = NoCalls

\* the wall clock advances between two cache calls
CacheTick ==
    /\ ticks < MaxTicks
    /\ \E d \in {60, CACHE_TTL} : now' = now + d
    /\ ticks' = ticks + 1
    /\ UNCHANGED <<NODE_ENV, jwt_leeway, storeVars, _failed_attempts, reqs, remote_calls,
                   freqs, blob_calls, threads, _cache_lock, _lock, _cache, served, history>>

NextCache == CacheTick \/ CacheSet \/ CacheGet \/ InvalidateCache

SpecCache == InitCache /\ [][NextCache]_vars

DataRoomTags(d) == {"dataroom:" \o d, "type:dataroom:" \o d}

\* C40: right after invalidate_cache(entity_type, entity_id, data_room_id=D)
\* cache_get returns no entry for that entity, none under a key
\* get_cache_key(entity_type, <any id>, dataRoomId=D) and none that was stored
\* with a tag of data room D, with either backend.
C40_InvalidationLeavesNoEntry ==
    history.last.op = "invalidate_cache" =>
       LET a == history.last
           Returned40(key) == CacheManager_get(_cache, key, now) # None
       IN  /\ ~Returned40(get_cache_key(a.entity_type, a.entity_id, None))
           /\ \A i \in EntityIds :
                 ~Returned40(get_cache_key(a.entity_type, i, a.data_room_id))
           /\ \A t \in EntityTypes, i \in EntityIds, d \in CacheRooms \cup {None} :
                 LET key == get_cache_key(t, i, d) IN
                 (\E g \in history.tagged :
                     g.key = _make_key(key) /\ g.tag \in DataRoomTags(a.data_room_id))
                 => ~Returned40(key)

====
